---- MODULE Spec2Model ----
(***************************************************************************)
(* A model of the Uno nonlinear-programming solver framework:              *)
(*   - the driver Uno::solve and its termination test (src/uno/Uno.cpp),   *)
(*   - the FeasibilityRestoration constraint-relaxation strategy           *)
(*     (src/src/base/constraint_relaxation/FeasibilityRestoration.cpp),    *)
(*   - the l1Relaxation constraint-relaxation strategy                     *)
(*     (src/uno/ingredients/constraint_relaxation/l1Relaxation.cpp),       *)
(*   - the lazy evaluations of Iterate (src/uno/optimization/Iterate.cpp), *)
(*   - the TrustLineSearch globalization mechanism                         *)
(*     (src/src/base/globalization_mechanism/TrustLineSearch.cpp),         *)
(*   - the presets of Options and SubproblemFactory::create                *)
(*     (src/uno/tools/Options.cpp),                                        *)
(*   - the directions and the common blocks of BQPDSolver                  *)
(*     (src/src/solvers/QP/BQPDSolver.cpp),                                *)
(*   - the bounds of the subproblem variables                              *)
(*     (src/src/base/subproblem/Subproblem.cpp).                           *)
(* Real quantities (residuals, norms, multipliers) are modelled by small   *)
(* integers counted in units of the termination tolerance.                 *)
(***************************************************************************)
EXTENDS Integers, Sequences, FiniteSets, TLC

VARIABLES
    \* ---- Uno::check_termination called on one (iterate, step norm) ----
    ct_iterate,          \* the Iterate handed to check_termination
    ct_step_norm,        \* the step norm handed to check_termination
    ct_status,           \* the TerminationStatus returned ("none" before the call)
    \* ---- Uno::solve ----
    pc,                  \* position in Uno::solve
    termination_status,  \* local variable termination_status
    major_iterations,    \* local variable major_iterations
    current_iterate,     \* the caller's current_iterate
    result,              \* the returned Result (NoResult before the return)
    status_history,      \* every value check_termination returned during solve
    iterate_at_throw,    \* current_iterate when the last iteration began
    exception_caught,    \* TRUE once the catch block ran
    \* ---- FeasibilityRestoration ----
    current_phase,       \* FeasibilityRestoration::current_phase
    objective_sign,      \* problem.objective_sign
    direction,           \* the Direction last returned to the mechanism
    fr_call,             \* what the last FeasibilityRestoration operation did
    subproblem_definition_changed,  \* Subproblem::subproblem_definition_changed
    fr_current,          \* the mechanism's current iterate, as is_acceptable sees it
    fr_trial,            \* the trial iterate last handed to is_acceptable
    \* ---- l1Relaxation ----
    penalty_parameter,   \* l1Relaxation::penalty_parameter
    l1_pc,               \* position inside l1Relaxation::compute_feasible_direction
    subproblem_elastic,  \* TRUE while the subproblem carries the elastic variables
    l1_direction,        \* the Direction the strategy works on and returns
    steering,            \* the locals of solve_with_steering_rule
    l1_call,             \* what the last l1Relaxation operation did
    \* ---- Iterate (lazy evaluations) ----
    it_iterate,          \* the Iterate the evaluate_* functions are called on
    number_eval_objective,    \* Iterate::number_eval_objective
    number_eval_constraints,  \* Iterate::number_eval_constraints
    number_eval_jacobian,     \* Iterate::number_eval_jacobian
    evaluator_invocations,    \* how often each evaluator of the Problem was invoked
    iterates_constructed,     \* how many Iterate objects were constructed
    it_call,             \* the last operation on the Iterate
    \* ---- TrustLineSearch ----
    radius,              \* TrustLineSearch::radius
    tls_pc,              \* position inside TrustLineSearch::compute_iterate
    is_accepted,         \* local variable is_accepted
    number_iterations,   \* GlobalizationMechanism::number_iterations
    linesearch_failed,   \* local variable linesearch_failed
    tls_step_length,     \* local variable step_length, in units of 1 / StepUnit
    tls_solution_norm,   \* solution.norm of the direction last computed
    tls_exception,       \* the exception compute_iterate let out ("none" if none)
    radius_at_solve,     \* the radius handed to the last compute_step
    tls_event,           \* what the last step of compute_iterate did
    tls_calls,           \* how many times compute_iterate was called
    \* ---- opt ----
    options, \* the Options map
    arguments_processed, \* how many (argument, value) pairs of the command line were handled
    subproblem_created, \* what SubproblemFactory::create did ("none" before the call)
    opt_call,\* the last operation on the options
    \* ---- bqpd ----
    bqpd_ls, \* BQPDSolver::ls_, the signed active-set list bqpd_ returned
    bqpd_k, \* BQPDSolver::k_, the dimension of the null space
    bqpd_residuals, \* BQPDSolver::residuals_
    bqpd_x, \* the displacement x, after the projection into the bounds
    bqpd_direction, \* the Direction built from them
    bqpd_pc,\* position: solved, generated, corrected
    \* ---- svb ----
    variables_bounds, \* Subproblem::variables_bounds, elastic variables included
    svb_call,\* the last operation on the bounds and its arguments
    \* ---- cb ----
    wsc, \* the common block wsc_ of bqpd.f (kk, ll, mxws, mxlws)
    kktalphac, \* the common block kktalphac_ (alpha)
    cb_solver, \* the sizes of each BQPDSolver instance
    cb_pc, \* where each instance is in solve_subproblem_
    cb_observed, \* the common blocks each instance's bqpd_ call read, at its entry and at its end
    cb_overlapped, \* the solve call of the instance overlapped one of another instance
    cb_calls \* solve calls started by each instance

vars == << ct_iterate, ct_step_norm, ct_status,
           pc, termination_status, major_iterations, current_iterate, result,
           status_history, iterate_at_throw, exception_caught,
           current_phase, objective_sign, direction, fr_call,
           subproblem_definition_changed, fr_current, fr_trial,
           penalty_parameter, l1_pc, subproblem_elastic, l1_direction, steering, l1_call,
           it_iterate, number_eval_objective, number_eval_constraints, number_eval_jacobian,
           evaluator_invocations, iterates_constructed, it_call,
           radius, tls_pc, is_accepted, number_iterations, linesearch_failed,
           tls_step_length, tls_solution_norm, tls_exception, radius_at_solve,
           tls_event, tls_calls,
           options, arguments_processed, subproblem_created, opt_call,
           bqpd_ls, bqpd_k, bqpd_residuals, bqpd_x, bqpd_direction, bqpd_pc,
           variables_bounds, svb_call,
           wsc, kktalphac, cb_solver, cb_pc, cb_observed, cb_overlapped, cb_calls >>

cb_vars == << wsc, kktalphac, cb_solver, cb_pc, cb_observed, cb_overlapped, cb_calls >>

svb_vars == << variables_bounds, svb_call >>

bqpd_vars == << bqpd_ls, bqpd_k, bqpd_residuals, bqpd_x, bqpd_direction, bqpd_pc >>

opt_vars == << options, arguments_processed, subproblem_created, opt_call >>

tls_vars == << radius, tls_pc, is_accepted, number_iterations, linesearch_failed,
               tls_step_length, tls_solution_norm, tls_exception, radius_at_solve,
               tls_event, tls_calls >>
ct_vars == << ct_iterate, ct_step_norm, ct_status >>
uno_vars == << pc, termination_status, major_iterations, current_iterate, result,
               status_history, iterate_at_throw, exception_caught >>
fr_vars == << current_phase, objective_sign, direction, fr_call,
              subproblem_definition_changed, fr_current, fr_trial >>
fr_strategy_vars == << current_phase, objective_sign, direction, fr_call, fr_current, fr_trial >>
l1_vars == << penalty_parameter, l1_pc, subproblem_elastic, l1_direction, steering, l1_call >>
it_vars == << it_iterate, number_eval_objective, number_eval_constraints, number_eval_jacobian,
              evaluator_invocations, iterates_constructed, it_call >>

-----------------------------------------------------------------------------
(* Bounds of the model *)

MaxResidual == 2        \* residuals range over 0..MaxResidual
MaxScaling == 2         \* residual scalings range over 1..MaxScaling
MaxMultiplier == 2      \* multipliers are 0 or +-MaxMultiplier
MaxStepNorm == 1        \* step norms range over 0..MaxStepNorm
NumVariables == 1       \* model.number_variables
NumConstraints == 1     \* model.number_constraints
MaxNorm == 1            \* direction.norm ranges over 0..MaxNorm
MaxStepLength == 2      \* step lengths offered to is_acceptable: 1..MaxStepLength
MaxPenaltyExponent == 3 \* positive penalty parameters are decrease_factor^0 .. decrease_factor^MaxPenaltyExponent
MaxViolation == 2       \* constraint violations, linearized residuals and model objectives: 0..MaxViolation
MaxIterates == 2        \* Iterate objects constructed in one run
MaxEvaluateCalls == 2   \* calls of one evaluate_* function on one Iterate

(* Options read by the constructor Uno::Uno *)

tolerance == 1
max_iterations == 3
small_step_factor == 2

(* Parameters of l1Relaxation; penalty parameters are counted in units of    *)
(* 1e-10 / penalty_threshold                                                *)

decrease_factor == 2
penalty_threshold == 2
epsilon1_inverse == 10
epsilon2_inverse == 10

-----------------------------------------------------------------------------
(* Iterates, as far as the driver looks at them *)

Residuals == [ infeasibility : 0..MaxResidual,
               optimality_stationarity : 0..MaxResidual,
               feasibility_stationarity : 0..MaxResidual,
               optimality_complementarity : 0..MaxResidual,
               feasibility_complementarity : 0..MaxResidual,
               stationarity_scaling : 1..MaxScaling,
               complementarity_scaling : 1..MaxScaling ]

Multipliers == [ objective : {0, 1},
                 constraints : [1..NumConstraints -> {-MaxMultiplier, 0, MaxMultiplier}],
                 lower_bounds : [1..NumVariables -> {0, MaxMultiplier}],
                 upper_bounds : [1..NumVariables -> {-MaxMultiplier, 0}] ]

Iterates == [ x : {0}, residuals : Residuals, multipliers : Multipliers,
              is_objective_computed : {TRUE}, progress : {0} ]

\* the iterates the globalization mechanism hands to the driver: residuals at
\* the two ends of their range, unit scalings
MechanismResiduals == { r \in Residuals :
                          /\ r.infeasibility \in {0, MaxResidual}
                          /\ r.optimality_stationarity \in {0, MaxResidual}
                          /\ r.feasibility_stationarity \in {0, MaxResidual}
                          /\ r.optimality_complementarity \in {0, MaxResidual}
                          /\ r.feasibility_complementarity \in {0, MaxResidual}
                          /\ r.stationarity_scaling = 1
                          /\ r.complementarity_scaling = 1 }

MechanismMultipliers == { m \in Multipliers :
                            /\ \A i \in 1..NumVariables : m.lower_bounds[i] = 0 /\ m.upper_bounds[i] = 0
                            /\ \A j \in 1..NumConstraints : m.constraints[j] \in {0, MaxMultiplier} }

MechanismIterates(k) == [ x : {k}, residuals : MechanismResiduals, multipliers : MechanismMultipliers,
                          is_objective_computed : BOOLEAN, progress : {0} ]

StepNorms == 0..MaxStepNorm

\* INF<double>: larger than every threshold the step norm is compared with
InfStep == tolerance + MaxStepNorm + 1

TerminationStatus == { "NOT_OPTIMAL", "FEASIBLE_KKT_POINT", "FJ_POINT", "INFEASIBLE_KKT_POINT",
                       "FEASIBLE_SMALL_STEP", "INFEASIBLE_SMALL_STEP" }

Abs(v) == IF v < 0 THEN -v ELSE v

\* value / scaling <= bound, for a positive scaling
ScaledLeq(value, scaling, bound) == value <= bound * scaling

not_all_zero_multipliers(multipliers, tol) ==
    \/ \E j \in 1..NumConstraints : tol < Abs(multipliers.constraints[j])
    \/ \E i \in 1..NumVariables : tol < Abs(multipliers.lower_bounds[i] + multipliers.upper_bounds[i])

\* check_termination without the test of the objective multiplier
check_termination_no_objective_multiplier(iterate, step_norm) ==
    LET res == iterate.residuals
        optimality_stationarity == ScaledLeq(res.optimality_stationarity, res.stationarity_scaling, tolerance)
        feasibility_stationarity == ScaledLeq(res.feasibility_stationarity, res.stationarity_scaling, tolerance)
        optimality_complementarity == ScaledLeq(res.optimality_complementarity, res.complementarity_scaling, tolerance)
        feasibility_complementarity == ScaledLeq(res.feasibility_complementarity, res.complementarity_scaling, tolerance)
        primal_feasibility == res.infeasibility <= tolerance
        no_trivial_duals == not_all_zero_multipliers(iterate.multipliers, tolerance)
        small_step == IF step_norm * small_step_factor <= tolerance
                      THEN (IF primal_feasibility THEN "FEASIBLE_SMALL_STEP" ELSE "INFEASIBLE_SMALL_STEP")
                      ELSE "NOT_OPTIMAL"
    IN  IF optimality_complementarity /\ primal_feasibility
        THEN IF feasibility_stationarity /\ no_trivial_duals
             THEN "FJ_POINT"
             ELSE IF optimality_stationarity
                  THEN "FEASIBLE_KKT_POINT"
                  ELSE small_step
        ELSE IF feasibility_complementarity /\ feasibility_stationarity
             THEN "INFEASIBLE_KKT_POINT"
             ELSE small_step

check_termination(iterate, step_norm) ==
    LET res == iterate.residuals
        optimality_stationarity == ScaledLeq(res.optimality_stationarity, res.stationarity_scaling, tolerance)
        feasibility_stationarity == ScaledLeq(res.feasibility_stationarity, res.stationarity_scaling, tolerance)
        optimality_complementarity == ScaledLeq(res.optimality_complementarity, res.complementarity_scaling, tolerance)
        feasibility_complementarity == ScaledLeq(res.feasibility_complementarity, res.complementarity_scaling, tolerance)
        primal_feasibility == res.infeasibility <= tolerance
        no_trivial_duals == not_all_zero_multipliers(iterate.multipliers, tolerance)
        \* stationarity & complementarity not achieved, but we can terminate with a small step
        small_step == IF step_norm * small_step_factor <= tolerance
                      THEN (IF primal_feasibility THEN "FEASIBLE_SMALL_STEP" ELSE "INFEASIBLE_SMALL_STEP")
                      ELSE "NOT_OPTIMAL"
    IN  IF optimality_complementarity /\ primal_feasibility
        THEN IF feasibility_stationarity /\ no_trivial_duals
             THEN "FJ_POINT"                      \* feasible but CQ failure
             ELSE IF 0 < iterate.multipliers.objective /\ optimality_stationarity
                  THEN "FEASIBLE_KKT_POINT"       \* feasible regular stationary point
                  ELSE small_step
        ELSE IF feasibility_complementarity /\ feasibility_stationarity
             THEN "INFEASIBLE_KKT_POINT"          \* no primal feasibility, minimum of constraint violation
             ELSE small_step

-----------------------------------------------------------------------------
(* Directions and phases of the constraint-relaxation strategy *)

Phases == { "OPTIMALITY", "FEASIBILITY_RESTORATION" }

Status == { "OPTIMAL", "UNBOUNDED_PROBLEM", "INFEASIBLE", "ERROR" }

ConstraintFeasibility == { "FEASIBLE", "INFEASIBLE_LOWER", "INFEASIBLE_UPPER" }

\* a ConstraintPartition: the classification and its two index lists
ConstraintPartition(feasibility) ==
    [ constraint_feasibility |-> feasibility,
      feasible |-> { j \in 1..NumConstraints : feasibility[j] = "FEASIBLE" },
      infeasible |-> { j \in 1..NumConstraints : feasibility[j] # "FEASIBLE" } ]

ConstraintPartitions == { ConstraintPartition(f) : f \in [1..NumConstraints -> ConstraintFeasibility] }

NoPartition == ConstraintPartition([j \in 1..NumConstraints |-> "FEASIBLE"])

\* the values an objective multiplier takes in this strategy
ObjectiveMultipliers == { -1, 0, 1 }

\* a Direction as the subproblem hands it over: is_relaxed has its default,
\* objective_multiplier is whatever the subproblem left in it
SubproblemDirection(status, norm, partition, objective_multiplier) ==
    [ status |-> status, norm |-> norm, constraint_partition |-> partition,
      objective_multiplier |-> objective_multiplier, is_relaxed |-> FALSE ]

NoDirection == [ status |-> "none" ]

\* a progress measure is recorded by what it measures: nothing yet, the
\* objective, or the L1 norm of the violation of a set of constraints, all of
\* them taken at the x of the iterate that carries the measure
NoMeasure == [ of |-> "nothing", over |-> {} ]

objective_measure == [ of |-> "objective", over |-> {} ]

constraint_violation(constraints) == [ of |-> "constraint_violation", over |-> constraints ]

\* the progress of an Iterate on which no measure was computed
NoProgress == [ infeasibility |-> NoMeasure, objective |-> NoMeasure ]

\* the constraint multipliers of a trial iterate assembled by the mechanism
TrialMultipliers == [1..NumConstraints -> {0, MaxMultiplier}]

NoTrial == [ progress |-> NoProgress, multipliers |-> [j \in 1..NumConstraints |-> 0] ]

NoCall == [ op |-> "none", solves |-> 0, calls |-> << >>, definition_changed |-> FALSE,
            step_norm |-> 0, accept |-> FALSE,
            phase_before |-> "OPTIMALITY", feasibility_problem |-> FALSE,
            first_status |-> "none", first_partition |-> NoPartition,
            multipliers_before |-> NoTrial.multipliers ]

fr_idle ==
    /\ current_phase = "OPTIMALITY"
    /\ objective_sign = 1
    /\ direction = NoDirection
    /\ fr_call = NoCall
    /\ subproblem_definition_changed = FALSE
    /\ fr_current = [ progress |-> NoProgress ]
    /\ fr_trial = NoTrial

-----------------------------------------------------------------------------
(* Values of the l1Relaxation strategy *)

PenaltyValues == {0} \cup { decrease_factor ^ k : k \in 0..MaxPenaltyExponent }

Violations == 0..MaxViolation

\* the locals of solve_with_steering_rule, at their values outside a call
\* direction_residual is the linearized residual of the direction held in
\* direction, loop tells how the loop of stages d and e was left
NoSteering == [ constraints |-> 0, linearized_residual |-> 0, residual_lowest_violation |-> 0,
                objective_lowest_violation |-> 0, condition1 |-> FALSE,
                current_penalty_parameter |-> 0, direction_residual |-> 0,
                loop |-> "not_entered" ]

NoL1Call == [ op |-> "none", solves |-> 0, loop_solves |-> 0, resets |-> 0, calls |-> << >>,
              definition_changed |-> FALSE,
              penalty_at_entry |-> 0, accept |-> FALSE, trial_progress |-> NoProgress ]

l1_idle ==
    /\ penalty_parameter = 0
    /\ l1_pc = "idle"
    /\ subproblem_elastic = FALSE
    /\ l1_direction = NoDirection
    /\ steering = NoSteering
    /\ l1_call = NoL1Call

-----------------------------------------------------------------------------
(* Iterate and its lazy evaluations (src/uno/optimization/Iterate.cpp) *)

Quantities == { "objective", "constraints", "objective_gradient", "constraints_jacobian" }

NoValue == [ x |-> 0, scaling |-> 0, invocation |-> 0 ]

\* an Iterate as its constructor leaves it: nothing computed (the flags take
\* the defaults of their declarations); calls counts the evaluate_* calls made on it
NewIterate(x) ==
    [ x |-> x,
      value |-> [ q \in Quantities |-> NoValue ],
      computed |-> [ q \in Quantities |-> FALSE ],
      calls |-> [ q \in Quantities |-> 0 ] ]

NoInvocations == [ q \in Quantities |-> 0 ]

it_idle ==
    /\ it_iterate = NewIterate(0)
    /\ number_eval_objective = 0
    /\ number_eval_constraints = 0
    /\ number_eval_jacobian = 0
    /\ evaluator_invocations = NoInvocations
    /\ iterates_constructed = 0
    /\ it_call = "none"

-----------------------------------------------------------------------------
(* TrustLineSearch: constants and pure parts.  The radius and the norm of a *)
(* direction are integers counted in units of a quarter of the smallest     *)
(* radius the mechanism works with; a halved odd radius is rounded down,    *)
(* which only happens to a radius that falls below radius_threshold.        *)

MaxRadiusExponent == 1         \* initial radii are radius_threshold * 2^k, k in 0..MaxRadiusExponent
MaxComputeIterateCalls == 2    \* compute_iterate is called at most this many times

INFINITY == 1000               \* the radius of an unbounded trust region
radius_threshold == 4          \* the 1e-16 of termination
radius_after_infinity == 20    \* the 20. an infinite radius is replaced by
activity_tolerance == 1        \* activity_tolerance_
tls_max_iterations == 2        \* max_iterations of the mechanism
ratio_inverse == 2             \* 1 / ratio, the backtracking ratio being 0.5

RECURSIVE Power(_, _)
Power(base, exponent) == IF exponent = 0 THEN 1 ELSE base * Power(base, exponent - 1)

\* the step length 1, in units small enough for every backtracking of one line search
StepUnit == Power(ratio_inverse, tls_max_iterations + 1)

InitialRadii == { radius_threshold * Power(2, k) : k \in 0..MaxRadiusExponent } \cup { INFINITY }

\* the norms a direction computed inside the trust region can have: the zero
\* step and the step to the boundary (the largest step when there is no boundary)
SolutionNorms(trust_region_radius) ==
    IF trust_region_radius = INFINITY THEN { 0, MaxNorm } ELSE { 0, trust_region_radius }

\* TrustLineSearch::termination: "true", "false", or the exception it throws
termination(accepted, iteration, trust_region_radius) ==
    IF accepted THEN "true"
    ELSE IF tls_max_iterations < iteration THEN "out_of_range"
    ELSE IF trust_region_radius < radius_threshold THEN "out_of_range"
    ELSE "false"

\* line 56: the trust region is active at the solution
is_active(norm, trust_region_radius) ==
    IF trust_region_radius = INFINITY
    THEN norm >= INFINITY
    ELSE norm >= trust_region_radius - activity_tolerance

\* lines 56-58: the radius after an accepted step
increased_radius(norm, trust_region_radius) ==
    IF is_active(norm, trust_region_radius)
    THEN IF trust_region_radius = INFINITY THEN INFINITY ELSE 2 * trust_region_radius
    ELSE trust_region_radius

reduced_radius_unchanged(trust_region_radius) == trust_region_radius

\* lines 76-79: the radius after a failed line search
reduced_radius(trust_region_radius) ==
    IF trust_region_radius = INFINITY
    THEN radius_after_infinity \div 2
    ELSE trust_region_radius \div 2

check_step_accepts_on_exception(outcome) == outcome \in { "accepted", "invalid_argument" }

\* lines 38-45: is_accepted after check_step returned or threw
check_step_result(outcome) == outcome = "accepted"

tls_idle ==
    /\ radius = INFINITY
    /\ tls_pc = "idle"
    /\ is_accepted = FALSE
    /\ number_iterations = 0
    /\ linesearch_failed = FALSE
    /\ tls_step_length = 0
    /\ tls_solution_norm = 0
    /\ tls_exception = "none"
    /\ radius_at_solve = 0
    /\ tls_event = "none"
    /\ tls_calls = 0

-----------------------------------------------------------------------------
(* Options: the presets of find_preset and SubproblemFactory::create *)

MaxArguments == 2     \* the command line holds at most this many (argument, value) pairs

OptionKeys == { "mechanism", "constraint-relaxation", "strategy", "subproblem" }

\* the values the option table documents for each key
DocumentedValues ==
    [ k \in OptionKeys |->
        CASE k = "mechanism" -> { "TR", "LS" }
          [] k = "constraint-relaxation" -> { "feasibility-restoration", "l1-relaxation" }
          [] k = "strategy" -> { "filter", "l1-penalty" }
          [] k = "subproblem" -> { "QP", "LP", "primal_dual_interior_point" } ]

Presets == { "ipopt", "filtersqp", "byrd" }

\* the values of the four keys an option file or a command line can give
OptionMaps == { o \in [ OptionKeys -> UNION { DocumentedValues[k] : k \in OptionKeys } ] :
                  \A k \in OptionKeys : o[k] \in DocumentedValues[k] }

\* Options.cpp lines 31-61, restricted to the four keys
find_preset(preset, o) ==
    CASE preset = "ipopt" ->
           [ o EXCEPT !["mechanism"] = "LS",
                      !["constraint-relaxation"] = "feasibility-restoration",
                      !["strategy"] = "filter",
                      !["subproblem"] = "IPM" ]
      [] preset = "filtersqp" ->
           [ o EXCEPT !["mechanism"] = "TR",
                      !["constraint-relaxation"] = "feasibility-restoration",
                      !["strategy"] = "filter",
                      !["subproblem"] = "SQP" ]
      [] preset = "byrd" ->
           [ o EXCEPT !["mechanism"] = "LS",
                      !["constraint-relaxation"] = "l1-relaxation",
                      !["strategy"] = "l1-penalty",
                      !["subproblem"] = "SQP" ]
      [] OTHER -> o

\* SubproblemFactory.cpp lines 13-26: the subproblem built, or the exception thrown
SubproblemFactory_create(o) ==
    CASE o["subproblem"] = "QP" -> "QPSubproblem"
      [] o["subproblem"] = "LP" -> "LPSubproblem"
      [] o["subproblem"] = "primal_dual_interior_point" -> "PrimalDualInteriorPointSubproblem"
      [] OTHER -> "invalid_argument"

NoOptionCall == [ op |-> "none", preset |-> "none" ]

opt_idle ==
    /\ options = [ k \in OptionKeys |-> "none" ]
    /\ arguments_processed = 0
    /\ subproblem_created = "none"
    /\ opt_call = NoOptionCall

-----------------------------------------------------------------------------
(* BQPDSolver::generate_direction_ and TrustLineSearch::correct_multipliers. *)
(* Indices are those of Fortran: variables 1..n, constraints n+1..n+m.      *)

\* the lists ls_ that are signed permutations of the n + m indices
SignedPermutations ==
    { ls \in [ 1..(NumVariables + NumConstraints) ->
                 { i : i \in 1..(NumVariables + NumConstraints) } \cup
                 { -i : i \in 1..(NumVariables + NumConstraints) } ] :
        \A i \in 1..(NumVariables + NumConstraints) :
            Cardinality({ j \in 1..(NumVariables + NumConstraints) : Abs(ls[j]) = i }) = 1 }

\* the residuals (multipliers, for active constraints) bqpd_ writes
BackendResiduals == [ 1..(NumVariables + NumConstraints) -> { -MaxMultiplier, 0, MaxMultiplier } ]

Displacements == [ 1..NumVariables -> { -MaxNorm, 0, MaxNorm } ]

\* lines 159-160: Multipliers(n, m) and a Direction without any classification
EmptyDirection ==
    [ lower_bounds |-> [ i \in 1..NumVariables |-> 0 ],
      upper_bounds |-> [ i \in 1..NumVariables |-> 0 ],
      constraints |-> [ j \in 1..NumConstraints |-> 0 ],
      bounds_at_lower_bound |-> << >>,
      bounds_at_upper_bound |-> << >>,
      constraints_at_lower_bound |-> << >>,
      constraints_at_upper_bound |-> << >>,
      feasible |-> << >>,
      infeasible |-> << >>,
      constraint_feasibility |-> [ j \in 1..NumConstraints |-> "unset" ] ]

\* lines 164-190: the body of the loop over the active constraints, for entry j of ls
active_constraint(d, ls, residuals, j) ==
    LET index == Abs(ls[j])
    IN  IF index <= NumVariables
        THEN IF 0 <= ls[j]
             THEN [ d EXCEPT !.lower_bounds[index] = residuals[index],
                             !.bounds_at_lower_bound = Append(@, index) ]
             ELSE [ d EXCEPT !.upper_bounds[index] = - residuals[index],
                             !.bounds_at_upper_bound = Append(@, index) ]
        ELSE LET constraint_index == index - NumVariables
                 classified == [ d EXCEPT !.feasible = Append(@, constraint_index),
                                          !.constraint_feasibility[constraint_index] = "FEASIBLE" ]
             IN  IF 0 <= ls[j]
                 THEN [ classified EXCEPT !.constraints[constraint_index] = residuals[index],
                                          !.constraints_at_lower_bound = Append(@, constraint_index) ]
                 ELSE [ classified EXCEPT !.constraints[constraint_index] = - residuals[index],
                                          !.constraints_at_upper_bound = Append(@, constraint_index) ]

inactive_constraint_nonpositive(d, ls, residuals, j) ==
    LET index == Abs(ls[j])
    IN  IF NumVariables < index
        THEN LET constraint_index == index - NumVariables
             IN  IF residuals[index] <= 0
                 THEN [ d EXCEPT !.infeasible = Append(@, constraint_index),
                                 !.constraint_feasibility[constraint_index] =
                                     IF ls[j] < 0 THEN "INFEASIBLE_UPPER" ELSE "INFEASIBLE_LOWER" ]
                 ELSE [ d EXCEPT !.feasible = Append(@, constraint_index),
                                 !.constraint_feasibility[constraint_index] = "FEASIBLE" ]
        ELSE d

\* lines 195-212: the body of the loop over the inactive constraints, for entry j of ls
inactive_constraint(d, ls, residuals, j) ==
    LET index == Abs(ls[j])
    IN  IF NumVariables < index
        THEN LET constraint_index == index - NumVariables
             IN  IF residuals[index] < 0
                 THEN [ d EXCEPT !.infeasible = Append(@, constraint_index),
                                 !.constraint_feasibility[constraint_index] =
                                     IF ls[j] < 0 THEN "INFEASIBLE_UPPER" ELSE "INFEASIBLE_LOWER" ]
                 ELSE [ d EXCEPT !.feasible = Append(@, constraint_index),
                                 !.constraint_feasibility[constraint_index] = "FEASIBLE" ]
        ELSE d

\* the two loops of lines 163-213, from entry j on; the first n - k entries
\* of ls are the active constraints
RECURSIVE generate_direction_from(_, _, _, _, _)
generate_direction_from(d, ls, k, residuals, j) ==
    IF j > NumVariables + NumConstraints
    THEN d
    ELSE generate_direction_from(
             IF j <= NumVariables - k
             THEN active_constraint(d, ls, residuals, j)
             ELSE inactive_constraint(d, ls, residuals, j),
             ls, k, residuals, j + 1)

\* BQPDSolver.cpp lines 158-218, as far as multipliers, active set and
\* constraint partition go
generate_direction_(ls, k, residuals) == generate_direction_from(EmptyDirection, ls, k, residuals, 1)

RECURSIVE SeqToSet(_)
SeqToSet(seq) == IF seq = << >> THEN {} ELSE { Head(seq) } \cup SeqToSet(Tail(seq))

\* TrustLineSearch.cpp lines 87-101: the multiplier of a bound that is the
\* trust region is set to 0
correct_multipliers(d, x, trust_region_radius) ==
    [ d EXCEPT !.upper_bounds = [ i \in 1..NumVariables |->
                                    IF i \in SeqToSet(d.bounds_at_upper_bound) /\ x[i] = trust_region_radius
                                    THEN 0 ELSE d.upper_bounds[i] ],
               !.lower_bounds = [ i \in 1..NumVariables |->
                                    IF i \in SeqToSet(d.bounds_at_lower_bound) /\ x[i] = - trust_region_radius
                                    THEN 0 ELSE d.lower_bounds[i] ] ]

bqpd_idle ==
    /\ bqpd_ls = << >>
    /\ bqpd_k = 0
    /\ bqpd_residuals = << >>
    /\ bqpd_x = << >>
    /\ bqpd_direction = NoDirection
    /\ bqpd_pc = "idle"

-----------------------------------------------------------------------------
(* Subproblem::set_variables_bounds.  Bounds and displacements are integers; *)
(* INFINITY and -INFINITY stand for the infinite bounds.                     *)

MaxBound == 1     \* finite bounds of the problem and coordinates of x are -MaxBound, 0 or MaxBound
MaxBoundsCalls == 2   \* the bounds of the subproblem are set at most this many times

\* the variables of the subproblem: the original ones, then two elastic
\* variables per constraint (count_elastic_variables, both bounds finite)
SubproblemVariables == 1..(NumVariables + 2 * NumConstraints)

Max(a, b) == IF a < b THEN b ELSE a
Min(a, b) == IF a < b THEN a ELSE b

\* bound - x in the arithmetic of doubles: an infinite bound stays infinite
Shifted(bound, x) == IF bound \in { INFINITY, -INFINITY } THEN bound ELSE bound - x

ProblemBounds == [ lb : { -INFINITY, -MaxBound, 0 }, ub : { 0, MaxBound, INFINITY } ]

Coordinates == { -MaxBound, 0, MaxBound }

TrustRegionRadii == { 0, MaxBound, INFINITY }

ElasticVariables == SubproblemVariables \ (1..NumVariables)

\* ConstraintRelaxationStrategy.cpp lines 37-41
set_elastic_bounds_in_subproblem(bounds, number_elastic_variables) ==
    [ i \in SubproblemVariables |->
        IF NumVariables < i /\ i <= NumVariables + number_elastic_variables
        THEN [ lb |-> 0, ub |-> INFINITY ]
        ELSE bounds[i] ]

set_variables_bounds_of_all_variables(bounds, problem_bounds, x, trust_region_radius) ==
    [ i \in SubproblemVariables |->
        LET o == IF i <= NumVariables THEN i ELSE 1
        IN  [ lb |-> Max(- trust_region_radius, Shifted(problem_bounds[o].lb, x[o])),
              ub |-> Min(trust_region_radius, Shifted(problem_bounds[o].ub, x[o])) ] ]

\* Subproblem.cpp lines 53-61
set_variables_bounds(bounds, problem_bounds, x, trust_region_radius) ==
    [ i \in SubproblemVariables |->
        IF i <= NumVariables
        THEN [ lb |-> Max(- trust_region_radius, Shifted(problem_bounds[i].lb, x[i])),
               ub |-> Min(trust_region_radius, Shifted(problem_bounds[i].ub, x[i])) ]
        ELSE bounds[i] ]

NoBoundsCall == [ op |-> "none", calls |-> 0 ]

svb_idle ==
    /\ variables_bounds = << >>
    /\ svb_call = NoBoundsCall

-----------------------------------------------------------------------------
(* BQPDSolver: the Fortran common blocks shared by every instance *)

MaxNonzeros == 2      \* maximum_number_nonzeros of an instance ranges over 1..MaxNonzeros
MaxSolveCalls == 2    \* each instance starts at most this many solve calls

kmax_quadratic == 500
mxwk0 == 2000000
mxiwk0 == 500000

Instances == { 1, 2 }

\* BQPDSolver.cpp lines 26-29: the arguments of the constructor that the
\* sizes depend on, n_ and m_ being NumVariables and NumConstraints
SolverSizes == [ maximum_number_nonzeros : 1..MaxNonzeros, quadratic_programming : BOOLEAN ]

\* line 29
kmax(solver) == IF solver.quadratic_programming THEN kmax_quadratic ELSE 0

\* line 31
size_hessian_sparsity(solver) ==
    IF solver.quadratic_programming THEN solver.maximum_number_nonzeros + NumVariables + 3 ELSE 0

\* line 32
size_hessian_workspace(solver) ==
    solver.maximum_number_nonzeros + (kmax(solver) * (kmax(solver) + 9)) \div 2
        + 2 * NumVariables + NumConstraints + mxwk0

\* line 33
size_hessian_sparsity_workspace(solver) ==
    size_hessian_sparsity(solver) + kmax(solver) + mxiwk0

\* lines 9-17: the common blocks as the Fortran library defines them, before
\* any solve
InitialCommonBlocks == [ wsc |-> [ kk |-> 0, ll |-> 0, mxws |-> 0, mxlws |-> 0 ], alpha |-> 0 ]

\* lines 79-83: the values an instance has for the common blocks
instance_common_blocks(solver) ==
    [ wsc |-> [ kk |-> solver.maximum_number_nonzeros,
                ll |-> size_hessian_sparsity(solver),
                mxws |-> size_hessian_workspace(solver),
                mxlws |-> size_hessian_sparsity_workspace(solver) ],
      alpha |-> 0 ]

\* solve_subproblem_ that leaves the common blocks as it finds them
common_blocks_not_written(solver, blocks) == blocks

\* lines 79-83: the common blocks after solve_subproblem_ wrote them
common_blocks_written(solver, blocks) == instance_common_blocks(solver)

\* nothing read yet
NotRead == [ wsc |-> [ kk |-> -1, ll |-> -1, mxws |-> -1, mxlws |-> -1 ], alpha |-> -1 ]

NoObservation == [ entry |-> NotRead, exit |-> NotRead ]

cb_idle ==
    /\ wsc = InitialCommonBlocks.wsc
    /\ kktalphac = InitialCommonBlocks.alpha
    /\ cb_solver = << >>
    /\ cb_pc = << >>
    /\ cb_observed = << >>
    /\ cb_overlapped = << >>
    /\ cb_calls = << >>

-----------------------------------------------------------------------------
(* Uno::check_termination applied to one iterate and one step norm *)

NoIterate == [ x |-> 0 ]
NoResult == [ status |-> "none" ]

ct_idle == ct_iterate = NoIterate /\ ct_step_norm = 0 /\ ct_status = "idle"

uno_idle ==
    /\ pc = "idle"
    /\ termination_status = "none"
    /\ major_iterations = 0
    /\ current_iterate = NoIterate
    /\ result = NoResult
    /\ status_history = << >>
    /\ iterate_at_throw = NoIterate
    /\ exception_caught = FALSE

InitTermination ==
    /\ ct_iterate \in Iterates
    /\ ct_step_norm \in StepNorms \cup {InfStep}
    /\ ct_status = "none"
    /\ uno_idle
    /\ fr_idle
    /\ l1_idle
    /\ it_idle
    /\ tls_idle
    /\ opt_idle
    /\ bqpd_idle
    /\ svb_idle
    /\ cb_idle

call_check_termination ==
    /\ ct_status = "none"
    /\ ct_status' = check_termination(ct_iterate, ct_step_norm)
    /\ UNCHANGED << ct_iterate, ct_step_norm >>
    /\ UNCHANGED uno_vars
    /\ UNCHANGED fr_vars
    /\ UNCHANGED l1_vars
    /\ UNCHANGED it_vars
    /\ UNCHANGED tls_vars
    /\ UNCHANGED opt_vars
    /\ UNCHANGED bqpd_vars
    /\ UNCHANGED svb_vars
    /\ UNCHANGED cb_vars

-----------------------------------------------------------------------------
(* Uno::solve *)

\* termination_criterion with the comparison of the limit made strict
termination_criterion_strict(current_status, iteration) ==
    current_status # "NOT_OPTIMAL" \/ max_iterations < iteration

termination_criterion(current_status, iteration) ==
    current_status # "NOT_OPTIMAL" \/ max_iterations <= iteration

InitUno ==
    /\ pc = "initialize"
    /\ termination_status = "none"
    /\ major_iterations = 0
    /\ current_iterate \in MechanismIterates(0)
    /\ result = NoResult
    /\ status_history = << >>
    /\ iterate_at_throw = NoIterate
    /\ exception_caught = FALSE
    /\ ct_idle
    /\ fr_idle
    /\ l1_idle
    /\ it_idle
    /\ tls_idle
    /\ opt_idle
    /\ bqpd_idle
    /\ svb_idle
    /\ cb_idle

\* lines 27-32: initialize the mechanism, test the initial point
solve_initialize ==
    /\ pc = "initialize"
    /\ termination_status' = check_termination(current_iterate, InfStep)
    /\ status_history' = << termination_status' >>
    /\ pc' = "loop"
    /\ UNCHANGED << major_iterations, current_iterate, result, iterate_at_throw, exception_caught >>
    /\ UNCHANGED ct_vars
    /\ UNCHANGED fr_vars
    /\ UNCHANGED l1_vars
    /\ UNCHANGED it_vars
    /\ UNCHANGED tls_vars
    /\ UNCHANGED opt_vars
    /\ UNCHANGED bqpd_vars
    /\ UNCHANGED svb_vars
    /\ UNCHANGED cb_vars

\* the catch block of an iteration that counts the iteration only after the mechanism returned
iteration_throws_uncounted ==
    /\ pc = "loop"
    /\ ~ termination_criterion(termination_status, major_iterations)
    /\ iterate_at_throw' = current_iterate
    /\ \E p \in {0, 1} : current_iterate' = [current_iterate EXCEPT !.progress = p]
    /\ exception_caught' = TRUE
    /\ pc' = "after_loop"
    /\ UNCHANGED << major_iterations, termination_status, status_history, result >>
    /\ UNCHANGED ct_vars
    /\ UNCHANGED fr_vars
    /\ UNCHANGED l1_vars
    /\ UNCHANGED it_vars
    /\ UNCHANGED tls_vars
    /\ UNCHANGED opt_vars
    /\ UNCHANGED bqpd_vars
    /\ UNCHANGED svb_vars
    /\ UNCHANGED cb_vars

\* lines 35-41, 51-53: compute_acceptable_iterate throws; the mechanism may have
\* recomputed the progress measures of current_iterate in place before it threw
iteration_throws ==
    /\ pc = "loop"
    /\ ~ termination_criterion(termination_status, major_iterations)
    /\ major_iterations' = major_iterations + 1
    /\ iterate_at_throw' = current_iterate
    /\ \E p \in {0, 1} : current_iterate' = [current_iterate EXCEPT !.progress = p]
    /\ exception_caught' = TRUE
    /\ pc' = "after_loop"
    /\ UNCHANGED << termination_status, status_history, result >>
    /\ UNCHANGED ct_vars
    /\ UNCHANGED fr_vars
    /\ UNCHANGED l1_vars
    /\ UNCHANGED it_vars
    /\ UNCHANGED tls_vars
    /\ UNCHANGED opt_vars
    /\ UNCHANGED bqpd_vars
    /\ UNCHANGED svb_vars
    /\ UNCHANGED cb_vars

\* lines 35-49: one outer iteration in which the mechanism returns (new_iterate, step_norm)
iteration_returns ==
    /\ pc = "loop"
    /\ ~ termination_criterion(termination_status, major_iterations)
    /\ major_iterations' = major_iterations + 1
    /\ \E new_iterate \in MechanismIterates(major_iterations + 1), step_norm \in StepNorms :
          /\ termination_status' = check_termination(new_iterate, step_norm)
          /\ current_iterate' = new_iterate
    /\ status_history' = Append(status_history, termination_status')
    /\ UNCHANGED << pc, result, iterate_at_throw, exception_caught >>
    /\ UNCHANGED ct_vars
    /\ UNCHANGED fr_vars
    /\ UNCHANGED l1_vars
    /\ UNCHANGED it_vars
    /\ UNCHANGED tls_vars
    /\ UNCHANGED opt_vars
    /\ UNCHANGED bqpd_vars
    /\ UNCHANGED svb_vars
    /\ UNCHANGED cb_vars

\* line 35: the loop condition fails
loop_exit ==
    /\ pc = "loop"
    /\ termination_criterion(termination_status, major_iterations)
    /\ pc' = "after_loop"
    /\ UNCHANGED << termination_status, major_iterations, current_iterate, result,
                    status_history, iterate_at_throw, exception_caught >>
    /\ UNCHANGED ct_vars
    /\ UNCHANGED fr_vars
    /\ UNCHANGED l1_vars
    /\ UNCHANGED it_vars
    /\ UNCHANGED tls_vars
    /\ UNCHANGED opt_vars
    /\ UNCHANGED bqpd_vars
    /\ UNCHANGED svb_vars
    /\ UNCHANGED cb_vars

\* lines 54-65: evaluate the objective if needed, build and return the Result
solve_return ==
    /\ pc = "after_loop"
    /\ current_iterate' = [current_iterate EXCEPT !.is_objective_computed = TRUE]
    /\ result' = [ status |-> termination_status,
                   solution |-> current_iterate',
                   iteration |-> major_iterations ]
    /\ pc' = "done"
    /\ UNCHANGED << termination_status, major_iterations, status_history, iterate_at_throw, exception_caught >>
    /\ UNCHANGED ct_vars
    /\ UNCHANGED fr_vars
    /\ UNCHANGED l1_vars
    /\ UNCHANGED it_vars
    /\ UNCHANGED tls_vars
    /\ UNCHANGED opt_vars
    /\ UNCHANGED bqpd_vars
    /\ UNCHANGED svb_vars
    /\ UNCHANGED cb_vars

-----------------------------------------------------------------------------
(* FeasibilityRestoration *)

\* Subproblem::compute_progress_measures: (L1 violation of all constraints, objective)
compute_progress_measures ==
    [ infeasibility |-> constraint_violation(1..NumConstraints),
      objective |-> objective_measure ]

\* lines 151-158: (L1 violation of all constraints, L1 violation of the
\* constraints in partition.infeasible)
compute_infeasibility_measures(partition) ==
    [ infeasibility |-> constraint_violation(1..NumConstraints),
      objective |-> constraint_violation(partition.infeasible) ]

\* set_restoration_multipliers that writes the multiplier of every constraint
set_restoration_multipliers_all(constraints_multipliers, partition) ==
    [ j \in 1..NumConstraints |->
        IF partition.constraint_feasibility[j] = "INFEASIBLE_LOWER" THEN 1 ELSE -1 ]

\* lines 138-149
set_restoration_multipliers(constraints_multipliers, partition) ==
    [ j \in 1..NumConstraints |->
        IF j \in partition.infeasible
        THEN (IF partition.constraint_feasibility[j] = "INFEASIBLE_LOWER" THEN 1 ELSE -1)
        ELSE constraints_multipliers[j] ]

\* lines 6-13 and 15-25: the constructor, and initialize, which computes the
\* progress measures of the first iterate
InitFR ==
    /\ current_phase = "OPTIMALITY"
    /\ objective_sign \in {-1, 1}
    /\ direction = NoDirection
    /\ fr_call = NoCall
    /\ subproblem_definition_changed = FALSE
    /\ fr_current = [ progress |-> compute_progress_measures ]
    /\ fr_trial = NoTrial
    /\ ct_idle
    /\ uno_idle
    /\ l1_idle
    /\ it_idle
    /\ tls_idle
    /\ opt_idle
    /\ bqpd_idle
    /\ svb_idle
    /\ cb_idle

\* lines 32-51; the subproblem is solved once or twice, and a subproblem that
\* updated its own parameters during a solve raises subproblem_definition_changed;
\* the fields that lines 36 and 47-49 overwrite are given their final value at once
compute_feasible_direction ==
    /\ \E status \in Status, partition \in ConstraintPartitions :
          IF status # "INFEASIBLE"
          THEN \E norm \in 0..MaxNorm :
                 /\ direction' = [ SubproblemDirection(status, norm, partition, objective_sign)
                                     EXCEPT !.objective_multiplier = objective_sign ]
                 /\ fr_call' = [ NoCall EXCEPT !.op = "compute_feasible_direction", !.solves = 1,
                                                !.phase_before = current_phase,
                                                !.first_status = status, !.first_partition = partition ]
          ELSE \E status2 \in Status, norm2 \in 0..MaxNorm :
                 /\ direction' = [ SubproblemDirection(status2, norm2, partition, 0)
                                     EXCEPT !.objective_multiplier = 0,
                                            !.constraint_partition = partition,
                                            !.is_relaxed = TRUE ]
                 /\ fr_call' = [ NoCall EXCEPT !.op = "compute_feasible_direction", !.solves = 2,
                                                !.phase_before = current_phase,
                                                !.feasibility_problem = TRUE,
                                                !.first_status = status, !.first_partition = partition ]
    /\ subproblem_definition_changed' \in { subproblem_definition_changed, TRUE }
    /\ fr_trial' = NoTrial
    /\ UNCHANGED << current_phase, objective_sign, fr_current >>
    /\ UNCHANGED ct_vars
    /\ UNCHANGED uno_vars
    /\ UNCHANGED l1_vars
    /\ UNCHANGED it_vars
    /\ UNCHANGED tls_vars
    /\ UNCHANGED opt_vars
    /\ UNCHANGED bqpd_vars
    /\ UNCHANGED svb_vars
    /\ UNCHANGED cb_vars

\* lines 70-74; the assertion of line 71 is the guard on the phase, the
\* argument is the direction the mechanism holds
solve_feasibility_problem ==
    /\ direction # NoDirection
    /\ current_phase = "OPTIMALITY"
    /\ \E status \in Status, norm \in 0..MaxNorm, partition \in ConstraintPartitions,
          junk \in ObjectiveMultipliers :
          direction' = SubproblemDirection(status, norm, partition, junk)
    /\ fr_call' = [ NoCall EXCEPT !.op = "solve_feasibility_problem", !.solves = 1,
                                   !.phase_before = current_phase,
                                   !.feasibility_problem = TRUE,
                                   !.first_status = direction.status,
                                   !.first_partition = direction.constraint_partition ]
    /\ subproblem_definition_changed' \in { subproblem_definition_changed, TRUE }
    /\ fr_trial' = NoTrial
    /\ UNCHANGED << current_phase, objective_sign, fr_current >>
    /\ UNCHANGED ct_vars
    /\ UNCHANGED uno_vars
    /\ UNCHANGED l1_vars
    /\ UNCHANGED it_vars
    /\ UNCHANGED tls_vars
    /\ UNCHANGED opt_vars
    /\ UNCHANGED bqpd_vars
    /\ UNCHANGED svb_vars
    /\ UNCHANGED cb_vars

\* the phase switch of is_acceptable without the way back to the optimality phase
is_acceptable_phase_no_return(phase, is_relaxed) ==
    IF is_relaxed /\ phase = "OPTIMALITY" THEN "FEASIBILITY_RESTORATION" ELSE phase

\* lines 91-106: the phase in which the trial is tested
is_acceptable_phase(phase, is_relaxed) ==
    IF ~ is_relaxed /\ phase = "FEASIBILITY_RESTORATION"
    THEN "OPTIMALITY"
    ELSE IF is_relaxed /\ phase = "OPTIMALITY"
         THEN "FEASIBILITY_RESTORATION"
         ELSE phase

\* lines 91-123: the calls made on the two globalization strategies, in order
is_acceptable_calls(phase, is_relaxed) ==
    LET switch == IF ~ is_relaxed /\ phase = "FEASIBILITY_RESTORATION"
                  THEN << >>
                  ELSE IF is_relaxed /\ phase = "OPTIMALITY"
                       THEN << "phase_2.notify", "phase_1.reset", "phase_1.notify" >>
                       ELSE << >>
        test == IF is_acceptable_phase(phase, is_relaxed) = "OPTIMALITY"
                THEN << "phase_2.check_acceptance" >>
                ELSE << "phase_1.check_acceptance" >>
    IN  switch \o test

\* lines 79-83 without the test of the flag
definition_changed_calls_unconditional(changed) ==
    << "phase_2.reset", "subproblem_definition_changed.clear",
       "current_iterate.compute_progress_measures" >>

\* lines 79-83: what is done when the subproblem definition changed, in order
definition_changed_calls(changed) ==
    IF changed
    THEN << "phase_2.reset", "subproblem_definition_changed.clear",
            "current_iterate.compute_progress_measures" >>
    ELSE << >>

\* lines 79-106: the progress of current_iterate when is_acceptable is done with it
is_acceptable_current_progress(progress, changed, phase, is_relaxed, partition, step_norm) ==
    LET recomputed == IF changed THEN compute_progress_measures ELSE progress
    IN  IF step_norm = 0
        THEN recomputed
        ELSE IF ~ is_relaxed /\ phase = "FEASIBILITY_RESTORATION"
             THEN compute_progress_measures
             ELSE IF is_relaxed /\ phase = "OPTIMALITY"
                  THEN compute_infeasibility_measures(partition)
                  ELSE recomputed

\* lines 86-114: the progress of trial_iterate when is_acceptable is done with it
is_acceptable_trial_progress(progress, phase, is_relaxed, partition, step_norm) ==
    IF step_norm = 0
    THEN progress
    ELSE IF is_acceptable_phase(phase, is_relaxed) = "FEASIBILITY_RESTORATION"
         THEN compute_infeasibility_measures(partition)
         ELSE compute_progress_measures

\* lines 125-135: the constraint multipliers of trial_iterate on return
is_acceptable_multipliers(constraints_multipliers, accept, is_relaxed, partition) ==
    IF accept /\ is_relaxed
    THEN set_restoration_multipliers(constraints_multipliers, partition)
    ELSE constraints_multipliers

\* lines 76-136; trial_iterate comes fresh from the mechanism, without progress measures
is_acceptable ==
    /\ direction # NoDirection
    /\ \E step_length \in 1..MaxStepLength, trial_multipliers \in TrialMultipliers :
          LET step_norm == step_length * direction.norm
              partition == direction.constraint_partition
          IN  /\ fr_current' = [ progress |->
                     is_acceptable_current_progress(fr_current.progress, subproblem_definition_changed,
                         current_phase, direction.is_relaxed, partition, step_norm) ]
              /\ IF step_norm = 0
                 THEN /\ current_phase' = current_phase
                      /\ fr_call' = [ NoCall EXCEPT !.op = "is_acceptable", !.step_norm = step_norm,
                                                     !.accept = TRUE, !.phase_before = current_phase,
                                                     !.calls = definition_changed_calls(subproblem_definition_changed),
                                                     !.definition_changed = subproblem_definition_changed,
                                                     !.multipliers_before = trial_multipliers ]
                 ELSE /\ current_phase' = is_acceptable_phase(current_phase, direction.is_relaxed)
                      /\ \E accept \in BOOLEAN :
                            fr_call' = [ NoCall EXCEPT !.op = "is_acceptable", !.step_norm = step_norm,
                                                       !.accept = accept, !.phase_before = current_phase,
                                                       !.calls = definition_changed_calls(subproblem_definition_changed)
                                                                 \o is_acceptable_calls(current_phase, direction.is_relaxed),
                                                       !.definition_changed = subproblem_definition_changed,
                                                       !.multipliers_before = trial_multipliers ]
              /\ fr_trial' = [ progress |->
                                   is_acceptable_trial_progress(NoProgress, current_phase,
                                       direction.is_relaxed, partition, step_norm),
                               multipliers |->
                                   is_acceptable_multipliers(trial_multipliers, fr_call'.accept,
                                       direction.is_relaxed, partition) ]
    /\ subproblem_definition_changed' = FALSE
    /\ UNCHANGED << objective_sign, direction >>
    /\ UNCHANGED ct_vars
    /\ UNCHANGED uno_vars
    /\ UNCHANGED l1_vars
    /\ UNCHANGED it_vars
    /\ UNCHANGED tls_vars
    /\ UNCHANGED opt_vars
    /\ UNCHANGED bqpd_vars
    /\ UNCHANGED svb_vars
    /\ UNCHANGED cb_vars

\* src/uno/Uno.cpp line 48: the accepted trial iterate becomes the current iterate
move_new_iterate ==
    /\ fr_call.op = "is_acceptable"
    /\ fr_call.accept
    /\ fr_current' = [ progress |-> fr_trial.progress ]
    /\ fr_trial' = NoTrial
    /\ fr_call' = [ NoCall EXCEPT !.op = "move_new_iterate", !.phase_before = current_phase ]
    /\ UNCHANGED << current_phase, objective_sign, direction, subproblem_definition_changed >>
    /\ UNCHANGED ct_vars
    /\ UNCHANGED uno_vars
    /\ UNCHANGED l1_vars
    /\ UNCHANGED it_vars
    /\ UNCHANGED tls_vars
    /\ UNCHANGED opt_vars
    /\ UNCHANGED bqpd_vars
    /\ UNCHANGED svb_vars
    /\ UNCHANGED cb_vars

-----------------------------------------------------------------------------
(* l1Relaxation (src/uno/ingredients/constraint_relaxation/l1Relaxation.cpp) *)

\* the elastic variables are attached to the subproblem
add_elastic_variables_to_subproblem(elastic) == TRUE

\* the elastic variables are detached from the subproblem
remove_elastic_variables_from_subproblem(elastic) == FALSE

\* the elastic components are taken out of the primal part of a direction
remove_elastic_variables_from_direction(d) == [ d EXCEPT !.x_elastic = FALSE ]

\* the Direction of one subproblem solve: its primal part carries elastic
\* components iff the subproblem carried elastic variables
SolvedDirection(objective, norm, elastic) ==
    [ status |-> "OPTIMAL", objective |-> objective, norm |-> norm,
      x_elastic |-> elastic, objective_multiplier |-> 0 ]

\* lines 192-204: the direction and the subproblem after solve_subproblem
solve_subproblem(elastic, objective, norm, penalty) ==
    [ direction |-> [ SolvedDirection(objective, norm, elastic) EXCEPT !.objective_multiplier = penalty ],
      elastic |-> remove_elastic_variables_from_subproblem(elastic) ]

\* resolve_subproblem that leaves the elastic variables in the subproblem
resolve_subproblem_no_remove(elastic, objective, norm, objective_multiplier) ==
    LET added == add_elastic_variables_to_subproblem(elastic)
    IN  [ direction |-> [ SolvedDirection(objective, norm, added)
                            EXCEPT !.objective_multiplier = objective_multiplier ],
          elastic |-> added ]

\* lines 206-221: the direction and the subproblem after resolve_subproblem
resolve_subproblem(elastic, objective, norm, objective_multiplier) ==
    LET added == add_elastic_variables_to_subproblem(elastic)
    IN  [ direction |-> [ SolvedDirection(objective, norm, added)
                            EXCEPT !.objective_multiplier = objective_multiplier ],
          elastic |-> remove_elastic_variables_from_subproblem(added) ]

\* the update of line 137 with the larger of the two values
updated_penalty_parameter_max(penalty, term_squared) ==
    IF penalty < term_squared THEN term_squared ELSE penalty

\* line 137: std::min(penalty_parameter, term * term)
updated_penalty_parameter(penalty, term_squared) ==
    IF term_squared < penalty THEN term_squared ELSE penalty

\* lines 166-170 with the threshold test made before the division
decreased_penalty_parameter_tested_first(penalty) ==
    IF penalty < penalty_threshold THEN 0 ELSE penalty \div decrease_factor

\* lines 166-170: the division by decrease_factor and the clamp to 0
decreased_penalty_parameter(penalty) ==
    IF penalty < penalty_threshold * decrease_factor THEN 0 ELSE penalty \div decrease_factor

\* the test of line 183 with <= in place of <
penalty_decreased_or_equal(penalty, current_penalty_parameter) ==
    penalty <= current_penalty_parameter

\* line 183
penalty_decreased(penalty, current_penalty_parameter) ==
    penalty < current_penalty_parameter

\* lines 152-154, with epsilon1 = 1 / epsilon1_inverse
stage_d(constraints, linearized_residual, residual_lowest_violation) ==
    \/ (residual_lowest_violation = 0 /\ linearized_residual = 0)
    \/ ( /\ residual_lowest_violation # 0
         /\ epsilon1_inverse * (constraints - linearized_residual)
                >= constraints - residual_lowest_violation )

\* lines 160-161, with epsilon2 = 1 / epsilon2_inverse
stage_e(condition1, constraints, objective, objective_lowest_violation) ==
    /\ condition1
    /\ epsilon2_inverse * (constraints - objective) >= constraints - objective_lowest_violation

\* lines 6-12: the constructor
InitL1 ==
    /\ penalty_parameter \in PenaltyValues
    /\ l1_pc = "idle"
    /\ subproblem_elastic = FALSE
    /\ l1_direction = NoDirection
    /\ steering = NoSteering
    /\ l1_call = NoL1Call
    /\ ct_idle
    /\ uno_idle
    /\ fr_idle
    /\ it_idle
    /\ tls_idle
    /\ opt_idle
    /\ bqpd_idle
    /\ svb_idle
    /\ cb_idle

\* lines 24-28
l1_create_current_subproblem ==
    /\ l1_pc = "idle"
    /\ subproblem_elastic' = add_elastic_variables_to_subproblem(subproblem_elastic)
    /\ l1_direction' = NoDirection
    /\ l1_call' = [ NoL1Call EXCEPT !.op = "create_current_subproblem",
                                     !.penalty_at_entry = penalty_parameter ]
    /\ UNCHANGED << penalty_parameter, l1_pc, steering >>
    /\ UNCHANGED ct_vars
    /\ UNCHANGED uno_vars
    /\ UNCHANGED fr_vars
    /\ UNCHANGED it_vars
    /\ UNCHANGED tls_vars
    /\ UNCHANGED opt_vars
    /\ UNCHANGED bqpd_vars
    /\ UNCHANGED svb_vars
    /\ UNCHANGED cb_vars

\* lines 30-33, 104-116: compute_feasible_direction enters solve_with_steering_rule,
\* which solves the subproblem (stage a) and looks at the linearized residual
l1_compute_feasible_direction ==
    /\ l1_pc = "idle"
    /\ \E objective \in Violations, norm \in 0..MaxNorm :
          LET solved == solve_subproblem(subproblem_elastic, objective, norm, penalty_parameter)
          IN  /\ l1_direction' = solved.direction
              /\ subproblem_elastic' = solved.elastic
    /\ IF 0 < penalty_parameter
       THEN \E constraints \in Violations, linearized_residual \in Violations :
               /\ steering' = [ NoSteering EXCEPT !.constraints = constraints,
                                                  !.linearized_residual = linearized_residual,
                                                  !.direction_residual = linearized_residual,
                                                  !.current_penalty_parameter = penalty_parameter ]
               /\ l1_pc' = IF linearized_residual # 0 THEN "stage_c" ELSE "return"
       ELSE /\ steering' = NoSteering
            /\ l1_pc' = "return"
    /\ l1_call' = [ NoL1Call EXCEPT !.op = "compute_feasible_direction", !.solves = 1,
                                     !.penalty_at_entry = penalty_parameter ]
    /\ subproblem_definition_changed' \in { subproblem_definition_changed, TRUE }
    /\ UNCHANGED penalty_parameter
    /\ UNCHANGED ct_vars
    /\ UNCHANGED uno_vars
    /\ UNCHANGED fr_strategy_vars
    /\ UNCHANGED it_vars
    /\ UNCHANGED tls_vars
    /\ UNCHANGED opt_vars
    /\ UNCHANGED bqpd_vars
    /\ UNCHANGED svb_vars
    /\ UNCHANGED cb_vars

\* lines 118-148: stages c and f
\* line 120: the subproblem solved with penalty 0 minimizes the linearized
\* residual, which the zero step and the direction of stage a bound from above
LowestResiduals(constraints, linearized_residual) ==
    { r \in Violations : r <= constraints /\ r <= linearized_residual }

\* lines 143 and 173-175: no direction has a smaller linearized residual than
\* the direction of lowest violation
ResidualsAbove(residual_lowest_violation) ==
    { r \in Violations : r >= residual_lowest_violation }

steering_lowest_violation ==
    /\ l1_pc = "stage_c"
    /\ \E objective_lowest \in Violations, norm_lowest \in 0..MaxNorm,
          residual_lowest \in LowestResiduals(steering.constraints, steering.linearized_residual) :
          LET lowest == resolve_subproblem(subproblem_elastic, objective_lowest, norm_lowest, 0)
              locals == [ steering EXCEPT !.residual_lowest_violation = residual_lowest,
                                          !.objective_lowest_violation = objective_lowest ]
              adopted == [ locals EXCEPT !.direction_residual = residual_lowest ]
          IN  IF 0 < steering.constraints /\ residual_lowest = steering.constraints
              THEN /\ steering' = locals
                   /\ l1_pc' = "reset_test"
                   /\ subproblem_elastic' = lowest.elastic
                   /\ l1_call' = [ l1_call EXCEPT !.solves = @ + 1 ]
                   /\ UNCHANGED << penalty_parameter, l1_direction >>
              ELSE \E error_lowest_violation \in {0, 1} :
                      IF error_lowest_violation = 0
                      THEN /\ penalty_parameter' = 0
                           /\ l1_direction' = lowest.direction
                           /\ steering' = adopted
                           /\ l1_pc' = "reset_test"
                           /\ subproblem_elastic' = lowest.elastic
                           /\ l1_call' = [ l1_call EXCEPT !.solves = @ + 1 ]
                      ELSE \E term_squared \in PenaltyValues :
                              /\ penalty_parameter' = updated_penalty_parameter(penalty_parameter, term_squared)
                              /\ l1_pc' = "loop"
                              /\ IF penalty_parameter' < penalty_parameter /\ penalty_parameter' # 0
                                 THEN \E objective \in Violations, norm \in 0..MaxNorm,
                                         residual \in ResidualsAbove(residual_lowest) :
                                         LET again == resolve_subproblem(lowest.elastic, objective, norm,
                                                                         penalty_parameter')
                                         IN  /\ l1_direction' = again.direction
                                             /\ steering' = [ locals EXCEPT !.direction_residual = residual,
                                                                             !.loop = "running" ]
                                             /\ subproblem_elastic' = again.elastic
                                             /\ l1_call' = [ l1_call EXCEPT !.solves = @ + 2 ]
                                 ELSE /\ l1_direction' = IF penalty_parameter' < penalty_parameter
                                                         THEN lowest.direction
                                                         ELSE l1_direction
                                      /\ steering' = [ (IF penalty_parameter' < penalty_parameter
                                                        THEN adopted ELSE locals)
                                                          EXCEPT !.loop = "running" ]
                                      /\ subproblem_elastic' = lowest.elastic
                                      /\ l1_call' = [ l1_call EXCEPT !.solves = @ + 1 ]
    /\ UNCHANGED ct_vars
    /\ UNCHANGED uno_vars
    /\ UNCHANGED fr_vars
    /\ UNCHANGED it_vars
    /\ UNCHANGED tls_vars
    /\ UNCHANGED opt_vars
    /\ UNCHANGED bqpd_vars
    /\ UNCHANGED svb_vars
    /\ UNCHANGED cb_vars

\* lines 149-179: one pass of the loop of stages d and e
steering_loop ==
    /\ l1_pc = "loop"
    /\ LET condition1 == \/ steering.condition1
                         \/ stage_d(steering.constraints, steering.linearized_residual,
                                    steering.residual_lowest_violation)
           condition2 == stage_e(condition1, steering.constraints, l1_direction.objective,
                                 steering.objective_lowest_violation)
       IN  IF condition2
           THEN /\ l1_pc' = "reset_test"
                /\ steering' = [ steering EXCEPT !.condition1 = condition1, !.loop = "conditions" ]
                /\ UNCHANGED << penalty_parameter, l1_direction, subproblem_elastic, l1_call >>
           ELSE /\ penalty_parameter' = decreased_penalty_parameter(penalty_parameter)
                /\ IF penalty_parameter' = 0
                   THEN /\ l1_pc' = "reset_test"
                        /\ steering' = [ steering EXCEPT !.condition1 = condition1, !.loop = "clamped" ]
                        /\ UNCHANGED << l1_direction, subproblem_elastic, l1_call >>
                   ELSE \E objective \in Violations, norm \in 0..MaxNorm,
                           linearized_residual \in ResidualsAbove(steering.residual_lowest_violation) :
                           LET again == resolve_subproblem(subproblem_elastic, objective, norm,
                                                           penalty_parameter')
                           IN  /\ l1_direction' = again.direction
                               /\ subproblem_elastic' = again.elastic
                               /\ steering' = [ steering EXCEPT !.condition1 = condition1,
                                                                !.linearized_residual = linearized_residual,
                                                                !.direction_residual = linearized_residual ]
                               /\ l1_call' = [ l1_call EXCEPT !.solves = @ + 1, !.loop_solves = @ + 1 ]
                               /\ l1_pc' = "loop"
    /\ UNCHANGED ct_vars
    /\ UNCHANGED uno_vars
    /\ UNCHANGED fr_vars
    /\ UNCHANGED it_vars
    /\ UNCHANGED tls_vars
    /\ UNCHANGED opt_vars
    /\ UNCHANGED bqpd_vars
    /\ UNCHANGED svb_vars
    /\ UNCHANGED cb_vars

\* lines 183-187: the globalization strategy is reset if the penalty parameter went down
steering_reset ==
    /\ l1_pc = "reset_test"
    /\ l1_call' = IF penalty_decreased(penalty_parameter, steering.current_penalty_parameter)
                  THEN [ l1_call EXCEPT !.resets = @ + 1 ]
                  ELSE l1_call
    /\ l1_pc' = "return"
    /\ UNCHANGED << penalty_parameter, subproblem_elastic, l1_direction, steering >>
    /\ UNCHANGED ct_vars
    /\ UNCHANGED uno_vars
    /\ UNCHANGED fr_vars
    /\ UNCHANGED it_vars
    /\ UNCHANGED tls_vars
    /\ UNCHANGED opt_vars
    /\ UNCHANGED bqpd_vars
    /\ UNCHANGED svb_vars
    /\ UNCHANGED cb_vars

\* lines 189 and 35-37: solve_with_steering_rule returns, compute_feasible_direction
\* strips the direction and returns it
l1_compute_feasible_direction_return ==
    /\ l1_pc = "return"
    /\ l1_direction' = remove_elastic_variables_from_direction(l1_direction)
    /\ l1_pc' = "idle"
    /\ steering' = NoSteering
    /\ UNCHANGED << penalty_parameter, subproblem_elastic, l1_call >>
    /\ UNCHANGED ct_vars
    /\ UNCHANGED uno_vars
    /\ UNCHANGED fr_vars
    /\ UNCHANGED it_vars
    /\ UNCHANGED tls_vars
    /\ UNCHANGED opt_vars
    /\ UNCHANGED bqpd_vars
    /\ UNCHANGED svb_vars
    /\ UNCHANGED cb_vars

\* lines 40-46: the correction is solved on the subproblem as it stands
l1_compute_second_order_correction ==
    /\ l1_pc = "idle"
    /\ l1_direction # NoDirection
    /\ \E objective \in Violations, norm \in 0..MaxNorm :
          l1_direction' = remove_elastic_variables_from_direction(
                              SolvedDirection(objective, norm, subproblem_elastic))
    /\ l1_call' = [ NoL1Call EXCEPT !.op = "compute_second_order_correction", !.solves = 1,
                                     !.penalty_at_entry = penalty_parameter ]
    /\ UNCHANGED << penalty_parameter, l1_pc, subproblem_elastic, steering >>
    /\ UNCHANGED ct_vars
    /\ UNCHANGED uno_vars
    /\ UNCHANGED fr_vars
    /\ UNCHANGED it_vars
    /\ UNCHANGED tls_vars
    /\ UNCHANGED opt_vars
    /\ UNCHANGED bqpd_vars
    /\ UNCHANGED svb_vars
    /\ UNCHANGED cb_vars

\* lines 65-73; the assertion of line 67 is the guard on the penalty parameter
l1_solve_feasibility_problem ==
    /\ l1_pc = "idle"
    /\ 0 < penalty_parameter
    /\ \E objective \in Violations, norm \in 0..MaxNorm :
          LET lowest == resolve_subproblem(subproblem_elastic, objective, norm, 0)
          IN  /\ l1_direction' = remove_elastic_variables_from_direction(lowest.direction)
              /\ subproblem_elastic' = lowest.elastic
    /\ l1_call' = [ NoL1Call EXCEPT !.op = "solve_feasibility_problem", !.solves = 1,
                                     !.penalty_at_entry = penalty_parameter ]
    /\ subproblem_definition_changed' \in { subproblem_definition_changed, TRUE }
    /\ UNCHANGED << penalty_parameter, l1_pc, steering >>
    /\ UNCHANGED ct_vars
    /\ UNCHANGED uno_vars
    /\ UNCHANGED fr_strategy_vars
    /\ UNCHANGED it_vars
    /\ UNCHANGED tls_vars
    /\ UNCHANGED opt_vars
    /\ UNCHANGED bqpd_vars
    /\ UNCHANGED svb_vars
    /\ UNCHANGED cb_vars

\* lines 75-102; trial_iterate comes fresh from the mechanism
\* lines 77-95: what is_acceptable does to the subproblem flag, the current
\* iterate and the globalization strategy, in order
l1_is_acceptable_calls(changed, norm) ==
    (IF changed
     THEN << "globalization_strategy.reset", "subproblem_definition_changed.clear",
             "current_iterate.compute_progress_measures" >>
     ELSE << >>)
    \o (IF norm = 0 THEN << >> ELSE << "globalization_strategy.check_acceptance" >>)

l1_is_acceptable ==
    /\ l1_pc = "idle"
    /\ l1_direction # NoDirection
    /\ \E accept \in BOOLEAN :
          /\ (l1_direction.norm = 0) => accept
          /\ l1_call' = [ NoL1Call EXCEPT !.op = "is_acceptable",
                             !.resets = IF subproblem_definition_changed THEN 1 ELSE 0,
                             !.calls = l1_is_acceptable_calls(subproblem_definition_changed,
                                                              l1_direction.norm),
                             !.definition_changed = subproblem_definition_changed,
                             !.penalty_at_entry = penalty_parameter,
                             !.accept = accept,
                             !.trial_progress = IF l1_direction.norm = 0
                                                THEN NoProgress
                                                ELSE compute_progress_measures ]
    /\ subproblem_definition_changed' = FALSE
    /\ UNCHANGED << penalty_parameter, l1_pc, subproblem_elastic, l1_direction, steering >>
    /\ UNCHANGED ct_vars
    /\ UNCHANGED uno_vars
    /\ UNCHANGED fr_strategy_vars
    /\ UNCHANGED it_vars
    /\ UNCHANGED tls_vars
    /\ UNCHANGED opt_vars
    /\ UNCHANGED bqpd_vars
    /\ UNCHANGED svb_vars
    /\ UNCHANGED cb_vars

-----------------------------------------------------------------------------
(* Iterate::evaluate_* *)

\* the test of lines 19, 30, 43 and 54 that finds every quantity stale
needs_evaluation_always(computed) == TRUE

\* lines 19, 30, 43 and 54: a quantity is evaluated only if it is not computed yet
needs_evaluation(computed) == ~ computed

\* what an evaluator of the Problem returns at x, scaled: the value records
\* the invocation that produced it
EvaluatedValue(x, scaling, invocation) == [ x |-> x, scaling |-> scaling, invocation |-> invocation ]

\* an evaluate_* call on it, for one quantity: the Iterate after the call
evaluate(it, quantity, scaling, invocations) ==
    IF needs_evaluation(it.computed[quantity])
    THEN [ it EXCEPT !.value[quantity] = EvaluatedValue(it.x, scaling, invocations[quantity] + 1),
                     !.computed[quantity] = TRUE,
                     !.calls[quantity] = @ + 1 ]
    ELSE [ it EXCEPT !.calls[quantity] = @ + 1 ]

\* the static counters of lines 5-7 and the Iterate of the constructor, lines 9-16
InitIterate ==
    /\ it_iterate = NewIterate(1)
    /\ number_eval_objective = 0
    /\ number_eval_constraints = 0
    /\ number_eval_jacobian = 0
    /\ evaluator_invocations = NoInvocations
    /\ iterates_constructed = 1
    /\ it_call = "none"
    /\ ct_idle
    /\ uno_idle
    /\ fr_idle
    /\ l1_idle
    /\ tls_idle
    /\ opt_idle
    /\ bqpd_idle
    /\ svb_idle
    /\ cb_idle

\* lines 9-16: a new Iterate is constructed for another point; the counters are static
construct_iterate ==
    /\ iterates_constructed < MaxIterates
    /\ iterates_constructed' = iterates_constructed + 1
    /\ it_iterate' = NewIterate(iterates_constructed + 1)
    /\ it_call' = "construct"
    /\ UNCHANGED << number_eval_objective, number_eval_constraints, number_eval_jacobian,
                    evaluator_invocations >>
    /\ UNCHANGED ct_vars
    /\ UNCHANGED uno_vars
    /\ UNCHANGED fr_vars
    /\ UNCHANGED l1_vars
    /\ UNCHANGED tls_vars
    /\ UNCHANGED opt_vars
    /\ UNCHANGED bqpd_vars
    /\ UNCHANGED svb_vars
    /\ UNCHANGED cb_vars

\* lines 18-27
evaluate_objective ==
    /\ it_iterate.calls["objective"] < MaxEvaluateCalls
    /\ \E scaling \in 1..MaxScaling :
          it_iterate' = evaluate(it_iterate, "objective", scaling, evaluator_invocations)
    /\ IF needs_evaluation(it_iterate.computed["objective"])
       THEN /\ evaluator_invocations' = [ evaluator_invocations EXCEPT !["objective"] = @ + 1 ]
            /\ number_eval_objective' = number_eval_objective + 1
       ELSE UNCHANGED << evaluator_invocations, number_eval_objective >>
    /\ it_call' = "evaluate_objective"
    /\ UNCHANGED << number_eval_constraints, number_eval_jacobian, iterates_constructed >>
    /\ UNCHANGED ct_vars
    /\ UNCHANGED uno_vars
    /\ UNCHANGED fr_vars
    /\ UNCHANGED l1_vars
    /\ UNCHANGED tls_vars
    /\ UNCHANGED opt_vars
    /\ UNCHANGED bqpd_vars
    /\ UNCHANGED svb_vars
    /\ UNCHANGED cb_vars

\* lines 29-40
evaluate_constraints ==
    /\ it_iterate.calls["constraints"] < MaxEvaluateCalls
    /\ \E scaling \in 1..MaxScaling :
          it_iterate' = evaluate(it_iterate, "constraints", scaling, evaluator_invocations)
    /\ IF needs_evaluation(it_iterate.computed["constraints"])
       THEN /\ evaluator_invocations' = [ evaluator_invocations EXCEPT !["constraints"] = @ + 1 ]
            /\ number_eval_constraints' = number_eval_constraints + 1
       ELSE UNCHANGED << evaluator_invocations, number_eval_constraints >>
    /\ it_call' = "evaluate_constraints"
    /\ UNCHANGED << number_eval_objective, number_eval_jacobian, iterates_constructed >>
    /\ UNCHANGED ct_vars
    /\ UNCHANGED uno_vars
    /\ UNCHANGED fr_vars
    /\ UNCHANGED l1_vars
    /\ UNCHANGED tls_vars
    /\ UNCHANGED opt_vars
    /\ UNCHANGED bqpd_vars
    /\ UNCHANGED svb_vars
    /\ UNCHANGED cb_vars

\* lines 42-51: the objective gradient has no counter
evaluate_objective_gradient ==
    /\ it_iterate.calls["objective_gradient"] < MaxEvaluateCalls
    /\ \E scaling \in 1..MaxScaling :
          it_iterate' = evaluate(it_iterate, "objective_gradient", scaling, evaluator_invocations)
    /\ IF needs_evaluation(it_iterate.computed["objective_gradient"])
       THEN evaluator_invocations' = [ evaluator_invocations EXCEPT !["objective_gradient"] = @ + 1 ]
       ELSE UNCHANGED evaluator_invocations
    /\ it_call' = "evaluate_objective_gradient"
    /\ UNCHANGED << number_eval_objective, number_eval_constraints, number_eval_jacobian,
                    iterates_constructed >>
    /\ UNCHANGED ct_vars
    /\ UNCHANGED uno_vars
    /\ UNCHANGED fr_vars
    /\ UNCHANGED l1_vars
    /\ UNCHANGED tls_vars
    /\ UNCHANGED opt_vars
    /\ UNCHANGED bqpd_vars
    /\ UNCHANGED svb_vars
    /\ UNCHANGED cb_vars

\* lines 53-67
evaluate_constraints_jacobian ==
    /\ it_iterate.calls["constraints_jacobian"] < MaxEvaluateCalls
    /\ \E scaling \in 1..MaxScaling :
          it_iterate' = evaluate(it_iterate, "constraints_jacobian", scaling, evaluator_invocations)
    /\ IF needs_evaluation(it_iterate.computed["constraints_jacobian"])
       THEN /\ evaluator_invocations' = [ evaluator_invocations EXCEPT !["constraints_jacobian"] = @ + 1 ]
            /\ number_eval_jacobian' = number_eval_jacobian + 1
       ELSE UNCHANGED << evaluator_invocations, number_eval_jacobian >>
    /\ it_call' = "evaluate_constraints_jacobian"
    /\ UNCHANGED << number_eval_objective, number_eval_constraints, iterates_constructed >>
    /\ UNCHANGED ct_vars
    /\ UNCHANGED uno_vars
    /\ UNCHANGED fr_vars
    /\ UNCHANGED l1_vars
    /\ UNCHANGED tls_vars
    /\ UNCHANGED opt_vars
    /\ UNCHANGED bqpd_vars
    /\ UNCHANGED svb_vars
    /\ UNCHANGED cb_vars

-----------------------------------------------------------------------------
(* Specifications *)

-----------------------------------------------------------------------------
(* TrustLineSearch::compute_iterate *)

InitTLS ==
    /\ radius \in InitialRadii
    /\ tls_pc = "constructed"
    /\ is_accepted = FALSE
    /\ number_iterations = 0
    /\ linesearch_failed = FALSE
    /\ tls_step_length = 0
    /\ tls_solution_norm = 0
    /\ tls_exception = "none"
    /\ radius_at_solve = 0
    /\ tls_event = "none"
    /\ tls_calls = 0
    /\ ct_idle
    /\ uno_idle
    /\ fr_idle
    /\ l1_idle
    /\ it_idle
    /\ opt_idle
    /\ bqpd_idle
    /\ svb_idle
    /\ cb_idle

\* lines 13-16: compute_iterate is entered; the radius is the one the
\* previous call left
tls_compute_iterate ==
    /\ tls_pc \in { "constructed", "returned" }
    /\ tls_calls < MaxComputeIterateCalls
    /\ tls_calls' = tls_calls + 1
    /\ is_accepted' = FALSE
    /\ number_iterations' = 0
    /\ linesearch_failed' = FALSE
    /\ tls_step_length' = 0
    /\ tls_solution_norm' = 0
    /\ tls_exception' = "none"
    /\ radius_at_solve' = 0
    /\ tls_event' = "compute_iterate"
    /\ tls_pc' = "outer_test"
    /\ UNCHANGED radius
    /\ UNCHANGED << ct_vars, uno_vars, fr_vars, l1_vars, it_vars >>
    /\ UNCHANGED opt_vars
    /\ UNCHANGED bqpd_vars
    /\ UNCHANGED svb_vars
    /\ UNCHANGED cb_vars

\* line 18 (and line 84): the test of the outer loop; an out_of_range thrown
\* by termination leaves compute_iterate
tls_outer_termination ==
    /\ tls_pc = "outer_test"
    /\ LET test == termination(is_accepted, number_iterations, radius)
       IN  /\ tls_pc' = CASE test = "true" -> "returned"
                          [] test = "false" -> "compute_step"
                          [] OTHER -> "thrown"
           /\ tls_exception' = IF test \in { "true", "false" } THEN tls_exception ELSE test
           /\ tls_event' = IF test = "true" THEN "return"
                           ELSE IF test = "false" THEN "outer_loop_entered" ELSE "termination_threw"
    /\ UNCHANGED << radius, is_accepted, number_iterations, linesearch_failed,
                    tls_step_length, tls_solution_norm, radius_at_solve, tls_calls >>
    /\ UNCHANGED << ct_vars, uno_vars, fr_vars, l1_vars, it_vars >>
    /\ UNCHANGED opt_vars
    /\ UNCHANGED bqpd_vars
    /\ UNCHANGED svb_vars
    /\ UNCHANGED cb_vars

\* lines 19-33 and, when no line search follows, lines 70-81: compute_step
\* throws invalid_argument, or returns a direction that is not a descent
\* direction, or returns a descent direction and the line search starts
tls_compute_step ==
    /\ tls_pc = "compute_step"
    /\ radius_at_solve' = radius
    /\ \E outcome \in { "invalid_argument", "non_descent", "descent" },
          norm \in SolutionNorms(radius) :
          IF outcome = "descent"
          THEN /\ tls_solution_norm' = norm
               /\ tls_step_length' = StepUnit
               /\ tls_event' = "descent_direction"
               /\ tls_pc' = "inner_test"
               /\ UNCHANGED << radius, number_iterations, linesearch_failed >>
          ELSE /\ tls_solution_norm' = IF outcome = "non_descent" THEN norm ELSE 0
               /\ tls_step_length' = 0
               /\ linesearch_failed' = TRUE
               /\ radius' = reduced_radius(radius)
               /\ number_iterations' = 0
               /\ tls_event' = IF outcome = "non_descent" THEN "non_descent_direction"
                                                          ELSE "compute_step_threw"
               /\ tls_pc' = "outer_test"
    /\ UNCHANGED << is_accepted, tls_exception, tls_calls >>
    /\ UNCHANGED << ct_vars, uno_vars, fr_vars, l1_vars, it_vars >>
    /\ UNCHANGED opt_vars
    /\ UNCHANGED bqpd_vars
    /\ UNCHANGED svb_vars
    /\ UNCHANGED cb_vars

\* line 34: the test of the inner loop; an out_of_range thrown by termination
\* is not caught by the handler of line 70 and leaves compute_iterate
tls_inner_termination ==
    /\ tls_pc = "inner_test"
    /\ LET test == termination(is_accepted, number_iterations, radius)
       IN  /\ tls_pc' = CASE test = "true" -> "after_inner"
                          [] test = "false" -> "check_step"
                          [] OTHER -> "thrown"
           /\ tls_exception' = IF test \in { "true", "false" } THEN tls_exception ELSE test
           /\ tls_event' = IF test = "true" THEN "inner_loop_left"
                           ELSE IF test = "false" THEN "inner_loop_entered" ELSE "termination_threw"
    /\ UNCHANGED << radius, is_accepted, number_iterations, linesearch_failed,
                    tls_step_length, tls_solution_norm, radius_at_solve, tls_calls >>
    /\ UNCHANGED << ct_vars, uno_vars, fr_vars, l1_vars, it_vars >>
    /\ UNCHANGED opt_vars
    /\ UNCHANGED bqpd_vars
    /\ UNCHANGED svb_vars
    /\ UNCHANGED cb_vars

\* lines 35-63: one trial of the line search; check_step accepts, rejects or
\* throws invalid_argument
tls_check_step ==
    /\ tls_pc = "check_step"
    /\ number_iterations' = number_iterations + 1
    /\ \E outcome \in { "accepted", "rejected", "invalid_argument" } :
          /\ is_accepted' = check_step_result(outcome)
          /\ tls_event' = CASE outcome = "accepted" -> "check_step_accepted"
                            [] outcome = "rejected" -> "check_step_rejected"
                            [] OTHER -> "check_step_threw"
    /\ IF is_accepted'
       THEN /\ radius' = increased_radius(tls_solution_norm, radius)
            /\ UNCHANGED tls_step_length
       ELSE /\ tls_step_length' = tls_step_length \div ratio_inverse
            /\ UNCHANGED radius
    /\ tls_pc' = "inner_test"
    /\ UNCHANGED << linesearch_failed, tls_solution_norm, tls_exception, radius_at_solve, tls_calls >>
    /\ UNCHANGED << ct_vars, uno_vars, fr_vars, l1_vars, it_vars >>
    /\ UNCHANGED opt_vars
    /\ UNCHANGED bqpd_vars
    /\ UNCHANGED svb_vars
    /\ UNCHANGED cb_vars

\* lines 65-81: after the inner loop
tls_after_line_search ==
    /\ tls_pc = "after_inner"
    /\ linesearch_failed' = (linesearch_failed \/ tls_max_iterations < number_iterations)
    /\ IF linesearch_failed'
       THEN /\ radius' = reduced_radius(radius)
            /\ number_iterations' = 0
            /\ tls_event' = "radius_reduced"
       ELSE /\ tls_event' = "line_search_succeeded"
            /\ UNCHANGED << radius, number_iterations >>
    /\ tls_pc' = "outer_test"
    /\ UNCHANGED << is_accepted, tls_step_length, tls_solution_norm, tls_exception,
                    radius_at_solve, tls_calls >>
    /\ UNCHANGED << ct_vars, uno_vars, fr_vars, l1_vars, it_vars >>
    /\ UNCHANGED opt_vars
    /\ UNCHANGED bqpd_vars
    /\ UNCHANGED svb_vars
    /\ UNCHANGED cb_vars

-----------------------------------------------------------------------------
(* Options: the command line is read, then the subproblem is created *)

\* the options after get_default_options read a well-formed option file
InitOptions ==
    /\ options \in OptionMaps
    /\ arguments_processed = 0
    /\ subproblem_created = "none"
    /\ opt_call = NoOptionCall
    /\ ct_idle
    /\ uno_idle
    /\ fr_idle
    /\ l1_idle
    /\ it_idle
    /\ tls_idle
    /\ bqpd_idle
    /\ svb_idle
    /\ cb_idle

\* Options.cpp lines 72-74: the pair (-preset, value) of the command line
command_line_preset ==
    /\ subproblem_created = "none"
    /\ arguments_processed < MaxArguments
    /\ \E preset \in Presets \cup { "other" } :
          /\ options' = find_preset(preset, options)
          /\ opt_call' = [ op |-> "find_preset", preset |-> preset ]
    /\ arguments_processed' = arguments_processed + 1
    /\ UNCHANGED subproblem_created
    /\ UNCHANGED << ct_vars, uno_vars, fr_vars, l1_vars, it_vars, tls_vars >>
    /\ UNCHANGED bqpd_vars
    /\ UNCHANGED svb_vars
    /\ UNCHANGED cb_vars

\* Options.cpp lines 75-78: any other pair (-name, value) of the command line
command_line_option ==
    /\ subproblem_created = "none"
    /\ arguments_processed < MaxArguments
    /\ \E name \in OptionKeys : \E value \in DocumentedValues[name] :
          /\ options' = [ options EXCEPT ![name] = value ]
          /\ opt_call' = [ op |-> "option", preset |-> "none" ]
    /\ arguments_processed' = arguments_processed + 1
    /\ UNCHANGED subproblem_created
    /\ UNCHANGED << ct_vars, uno_vars, fr_vars, l1_vars, it_vars, tls_vars >>
    /\ UNCHANGED bqpd_vars
    /\ UNCHANGED svb_vars
    /\ UNCHANGED cb_vars

\* SubproblemFactory.cpp lines 11-27
create_subproblem ==
    /\ subproblem_created = "none"
    /\ subproblem_created' = SubproblemFactory_create(options)
    /\ opt_call' = [ opt_call EXCEPT !.op = "create" ]
    /\ UNCHANGED << options, arguments_processed >>
    /\ UNCHANGED << ct_vars, uno_vars, fr_vars, l1_vars, it_vars, tls_vars >>
    /\ UNCHANGED bqpd_vars
    /\ UNCHANGED svb_vars
    /\ UNCHANGED cb_vars

-----------------------------------------------------------------------------
(* BQPDSolver: a Direction is built from what bqpd_ returned *)

\* the members of the solver after the call of bqpd_ (lines 139-152)
InitBQPD ==
    /\ bqpd_ls \in SignedPermutations
    /\ bqpd_k \in 0..NumVariables
    /\ bqpd_residuals \in BackendResiduals
    /\ bqpd_x \in Displacements
    /\ bqpd_direction = NoDirection
    /\ bqpd_pc = "solved"
    /\ ct_idle
    /\ uno_idle
    /\ fr_idle
    /\ l1_idle
    /\ it_idle
    /\ tls_idle
    /\ opt_idle
    /\ svb_idle
    /\ cb_idle

\* BQPDSolver.cpp line 154
bqpd_generate_direction ==
    /\ bqpd_pc = "solved"
    /\ bqpd_direction' = generate_direction_(bqpd_ls, bqpd_k, bqpd_residuals)
    /\ bqpd_pc' = "generated"
    /\ UNCHANGED << bqpd_ls, bqpd_k, bqpd_residuals, bqpd_x >>
    /\ UNCHANGED << ct_vars, uno_vars, fr_vars, l1_vars, it_vars, tls_vars, opt_vars >>
    /\ UNCHANGED svb_vars
    /\ UNCHANGED cb_vars

\* TrustLineSearch.cpp line 30, the trust region having the radius MaxNorm
bqpd_correct_multipliers ==
    /\ bqpd_pc = "generated"
    /\ bqpd_direction' = correct_multipliers(bqpd_direction, bqpd_x, MaxNorm)
    /\ bqpd_pc' = "corrected"
    /\ UNCHANGED << bqpd_ls, bqpd_k, bqpd_residuals, bqpd_x >>
    /\ UNCHANGED << ct_vars, uno_vars, fr_vars, l1_vars, it_vars, tls_vars, opt_vars >>
    /\ UNCHANGED svb_vars
    /\ UNCHANGED cb_vars

-----------------------------------------------------------------------------
(* Subproblem: the bounds of the variables of the subproblem *)

\* Subproblem.cpp lines 5-15: variables_bounds(number_variables) holds
\* default Ranges
InitBounds ==
    /\ variables_bounds = [ i \in SubproblemVariables |-> [ lb |-> 0, ub |-> 0 ] ]
    /\ svb_call = NoBoundsCall
    /\ ct_idle
    /\ cb_idle
    /\ uno_idle
    /\ fr_idle
    /\ l1_idle
    /\ it_idle
    /\ tls_idle
    /\ opt_idle
    /\ bqpd_idle

\* ConstraintRelaxationStrategy.cpp lines 37-41
svb_set_elastic_bounds_in_subproblem ==
    /\ svb_call.calls < MaxBoundsCalls
    /\ \E number_elastic_variables \in 0..(2 * NumConstraints) :
          /\ variables_bounds' = set_elastic_bounds_in_subproblem(variables_bounds, number_elastic_variables)
          /\ svb_call' = [ op |-> "set_elastic_bounds_in_subproblem", calls |-> svb_call.calls + 1,
                           elastic_before |-> [ i \in ElasticVariables |-> variables_bounds[i] ],
                           number_elastic_variables |-> number_elastic_variables ]
    /\ UNCHANGED << ct_vars, uno_vars, fr_vars, l1_vars, it_vars, tls_vars, opt_vars, bqpd_vars >>
    /\ UNCHANGED cb_vars

\* Subproblem.cpp lines 49-61, for the bounds of a problem, a current
\* iterate and a trust-region radius
svb_set_variables_bounds ==
    /\ svb_call.calls < MaxBoundsCalls
    /\ \E problem_bounds \in [ 1..NumVariables -> ProblemBounds ],
          x \in [ 1..NumVariables -> Coordinates ],
          trust_region_radius \in TrustRegionRadii :
          /\ variables_bounds' = set_variables_bounds(variables_bounds, problem_bounds, x, trust_region_radius)
          /\ svb_call' = [ op |-> "set_variables_bounds", calls |-> svb_call.calls + 1,
                           elastic_before |-> [ i \in ElasticVariables |-> variables_bounds[i] ],
                           problem_bounds |-> problem_bounds, x |-> x,
                           trust_region_radius |-> trust_region_radius ]
    /\ UNCHANGED << ct_vars, uno_vars, fr_vars, l1_vars, it_vars, tls_vars, opt_vars, bqpd_vars >>
    /\ UNCHANGED cb_vars

-----------------------------------------------------------------------------
(* BQPDSolver: solve calls of two instances in one process *)

\* two instances of different sizes are constructed; no solve has run yet
InitCommonBlocks ==
    /\ wsc = InitialCommonBlocks.wsc
    /\ kktalphac = InitialCommonBlocks.alpha
    /\ cb_solver \in { f \in [ Instances -> SolverSizes ] : f[1] # f[2] }
    /\ cb_pc = [ i \in Instances |-> "idle" ]
    /\ cb_observed = [ i \in Instances |-> NoObservation ]
    /\ cb_overlapped = [ i \in Instances |-> FALSE ]
    /\ cb_calls = [ i \in Instances |-> 0 ]
    /\ ct_idle
    /\ uno_idle
    /\ fr_idle
    /\ l1_idle
    /\ it_idle
    /\ tls_idle
    /\ opt_idle
    /\ bqpd_idle
    /\ svb_idle

\* BQPDSolver.cpp lines 74-137: solve_subproblem_ of an instance is entered
\* and writes the common blocks; a call that starts while the call of another
\* instance is in progress overlaps it
cb_solve_subproblem_write(i) ==
    /\ cb_pc[i] = "idle"
    /\ cb_calls[i] < MaxSolveCalls
    /\ cb_calls' = [ cb_calls EXCEPT ![i] = @ + 1 ]
    /\ LET blocks == common_blocks_written(cb_solver[i], [ wsc |-> wsc, alpha |-> kktalphac ])
       IN  /\ wsc' = blocks.wsc
           /\ kktalphac' = blocks.alpha
    /\ cb_pc' = [ cb_pc EXCEPT ![i] = "written" ]
    /\ cb_observed' = [ cb_observed EXCEPT ![i] = NoObservation ]
    /\ cb_overlapped' = [ j \in Instances |->
                            IF \E other \in Instances \ { i } : cb_pc[other] # "idle"
                            THEN (j = i \/ cb_pc[j] # "idle" \/ cb_overlapped[j])
                            ELSE (j # i /\ cb_overlapped[j]) ]
    /\ UNCHANGED cb_solver
    /\ UNCHANGED << ct_vars, uno_vars, fr_vars, l1_vars, it_vars, tls_vars, opt_vars, bqpd_vars, svb_vars >>

\* lines 139-142: bqpd_ is called and reads the common blocks
cb_bqpd_entry(i) ==
    /\ cb_pc[i] = "written"
    /\ cb_observed' = [ cb_observed EXCEPT ![i].entry = [ wsc |-> wsc, alpha |-> kktalphac ] ]
    /\ cb_pc' = [ cb_pc EXCEPT ![i] = "bqpd" ]
    /\ UNCHANGED << wsc, kktalphac, cb_solver, cb_overlapped, cb_calls >>
    /\ UNCHANGED << ct_vars, uno_vars, fr_vars, l1_vars, it_vars, tls_vars, opt_vars, bqpd_vars, svb_vars >>

\* lines 139-155: bqpd_ uses the common blocks until it returns, then
\* solve_subproblem_ returns
cb_bqpd_return(i) ==
    /\ cb_pc[i] = "bqpd"
    /\ cb_observed' = [ cb_observed EXCEPT ![i].exit = [ wsc |-> wsc, alpha |-> kktalphac ] ]
    /\ cb_pc' = [ cb_pc EXCEPT ![i] = "idle" ]
    /\ UNCHANGED << wsc, kktalphac, cb_solver, cb_overlapped, cb_calls >>
    /\ UNCHANGED << ct_vars, uno_vars, fr_vars, l1_vars, it_vars, tls_vars, opt_vars, bqpd_vars, svb_vars >>

-----------------------------------------------------------------------------

NextTermination == call_check_termination

SpecTermination == InitTermination /\ [][NextTermination]_vars

NextUno ==
    \/ solve_initialize
    \/ iteration_returns
    \/ iteration_throws
    \/ loop_exit
    \/ solve_return

SpecUno == InitUno /\ [][NextUno]_vars

NextFR ==
    \/ compute_feasible_direction
    \/ solve_feasibility_problem
    \/ is_acceptable
    \/ move_new_iterate

SpecFR == InitFR /\ [][NextFR]_vars

NextL1 ==
    \/ l1_create_current_subproblem
    \/ l1_compute_feasible_direction
    \/ steering_lowest_violation
    \/ steering_loop
    \/ steering_reset
    \/ l1_compute_feasible_direction_return
    \/ l1_compute_second_order_correction
    \/ l1_solve_feasibility_problem
    \/ l1_is_acceptable

SpecL1 == InitL1 /\ [][NextL1]_vars

\* the strategy is sequential code: a step that can be taken is taken
SpecL1Fair == InitL1 /\ [][NextL1]_vars /\ WF_vars(NextL1)

NextIterate ==
    \/ construct_iterate
    \/ evaluate_objective
    \/ evaluate_constraints
    \/ evaluate_objective_gradient
    \/ evaluate_constraints_jacobian

SpecIterate == InitIterate /\ [][NextIterate]_vars

NextTLS ==
    \/ tls_compute_iterate
    \/ tls_outer_termination
    \/ tls_compute_step
    \/ tls_inner_termination
    \/ tls_check_step
    \/ tls_after_line_search

SpecTLS == InitTLS /\ [][NextTLS]_vars

\* compute_iterate is sequential code: a step that can be taken is taken
SpecTLSFair == InitTLS /\ [][NextTLS]_vars /\ WF_vars(NextTLS)

NextOptions ==
    \/ command_line_preset
    \/ command_line_option
    \/ create_subproblem

SpecOptions == InitOptions /\ [][NextOptions]_vars

NextBQPD ==
    \/ bqpd_generate_direction
    \/ bqpd_correct_multipliers

SpecBQPD == InitBQPD /\ [][NextBQPD]_vars

NextBounds ==
    \/ svb_set_elastic_bounds_in_subproblem
    \/ svb_set_variables_bounds

SpecBounds == InitBounds /\ [][NextBounds]_vars

\* the run uses one constraint relaxation strategy, FeasibilityRestoration
\* or l1Relaxation, with its own subproblem
InitAcceptance == InitFR \/ InitL1

NextAcceptance ==
    \/ (l1_call = NoL1Call /\ NextFR)
    \/ (fr_call = NoCall /\ NextL1)

SpecAcceptance == InitAcceptance /\ [][NextAcceptance]_vars

\* the callers of the two instances are not ordered with respect to each other
NextCommonBlocks ==
    \/ \E i \in Instances : cb_solve_subproblem_write(i)
    \/ \E i \in Instances : cb_bqpd_entry(i)
    \/ \E i \in Instances : cb_bqpd_return(i)

SpecCommonBlocks == InitCommonBlocks /\ [][NextCommonBlocks]_vars

Init == InitUno

Next == NextUno

Spec == SpecUno

-----------------------------------------------------------------------------
(* Properties of Uno::solve, checked under SpecUno *)

Last(seq) == seq[Len(seq)]

\* C1: the outer loop runs only while the status is NOT_OPTIMAL and fewer than
\* max_iterations iterations were made: the iteration count never exceeds
\* max_iterations, every check_termination result before the last one is
\* NOT_OPTIMAL (the loop stops right after the first other result), the
\* returned status is the last result, and a run that ends without an
\* exception and with NOT_OPTIMAL has made exactly max_iterations iterations.
C1_LoopBoundedByLimitAndStatus ==
    /\ major_iterations <= max_iterations
    /\ \A i \in 1..(Len(status_history) - 1) : status_history[i] = "NOT_OPTIMAL"
    /\ (pc = "done") =>
          ( /\ result.iteration <= max_iterations
            /\ result.status = Last(status_history)
            /\ Len(status_history) = result.iteration + (IF exception_caught THEN 0 ELSE 1)
            /\ (~ exception_caught /\ result.status = "NOT_OPTIMAL") => (result.iteration = max_iterations) )

\* the loop ran into the limit: max_iterations iterations, none of them final
C1_Witness ==
    /\ pc = "done"
    /\ ~ exception_caught
    /\ result.iteration = max_iterations
    /\ result.status = "NOT_OPTIMAL"

\* C2: when compute_acceptable_iterate throws, solve still returns a Result:
\* its status is NOT_OPTIMAL, its solution has the x, multipliers and
\* residuals of the iterate that was current when the failing iteration
\* began, and its iteration counter counts the failing iteration.
C2_ExceptionYieldsResult ==
    /\ exception_caught => (pc \in {"after_loop", "done"})
    /\ (pc = "done" /\ exception_caught) =>
          /\ result.status = "NOT_OPTIMAL"
          /\ result.solution.x = iterate_at_throw.x
          /\ result.solution.multipliers = iterate_at_throw.multipliers
          /\ result.solution.residuals = iterate_at_throw.residuals
          /\ result.iteration = Len(status_history)

\* the mechanism threw in the second or a later iteration and solve returned
C2_Witness ==
    /\ pc = "done"
    /\ exception_caught
    /\ result.iteration >= 2
    /\ result.solution.x = result.iteration - 1

-----------------------------------------------------------------------------
(* Properties of Uno::check_termination, checked under SpecTermination *)

FeasibleKKTConditions(iterate) ==
    /\ iterate.residuals.infeasibility <= tolerance
    /\ ScaledLeq(iterate.residuals.optimality_complementarity, iterate.residuals.complementarity_scaling, tolerance)
    /\ ScaledLeq(iterate.residuals.optimality_stationarity, iterate.residuals.stationarity_scaling, tolerance)
    /\ iterate.multipliers.objective > 0

\* C3: whenever check_termination returns FEASIBLE_KKT_POINT, the iterate has
\* infeasibility <= tolerance, scaled optimality complementarity <= tolerance,
\* scaled optimality stationarity <= tolerance and objective multiplier > 0.
C3_FeasibleKKTImpliesConditions ==
    ct_status = "FEASIBLE_KKT_POINT" => FeasibleKKTConditions(ct_iterate)

\* a FEASIBLE_KKT_POINT that owes its stationarity test to the scaling
C3_Witness ==
    /\ ct_status = "FEASIBLE_KKT_POINT"
    /\ ct_iterate.residuals.optimality_stationarity > tolerance
    /\ ct_iterate.residuals.stationarity_scaling > 1

\* C4: an iterate with infeasibility <= tolerance, scaled optimality
\* complementarity <= tolerance, scaled optimality stationarity <= tolerance
\* and objective multiplier > 0 is classified FEASIBLE_KKT_POINT, whatever
\* the step norm.
C4_ConditionsImplyFeasibleKKT ==
    (ct_status \in TerminationStatus /\ FeasibleKKTConditions(ct_iterate))
        => ct_status = "FEASIBLE_KKT_POINT"

\* C5: whenever check_termination returns INFEASIBLE_KKT_POINT, the scaled
\* feasibility complementarity and the scaled feasibility stationarity are
\* <= tolerance and the primal infeasibility is > tolerance.
C5_InfeasibleKKTImpliesInfeasible ==
    ct_status = "INFEASIBLE_KKT_POINT" =>
        /\ ScaledLeq(ct_iterate.residuals.feasibility_complementarity,
                     ct_iterate.residuals.complementarity_scaling, tolerance)
        /\ ScaledLeq(ct_iterate.residuals.feasibility_stationarity,
                     ct_iterate.residuals.stationarity_scaling, tolerance)
        /\ ct_iterate.residuals.infeasibility > tolerance

-----------------------------------------------------------------------------
(* Properties of FeasibilityRestoration, checked under SpecFR *)

\* C6: the phase starts at OPTIMALITY and only is_acceptable changes it; it
\* becomes FEASIBILITY_RESTORATION only for a relaxed direction and OPTIMALITY
\* only for an un-relaxed one; after an is_acceptable call with a nonzero step
\* norm the phase is FEASIBILITY_RESTORATION iff the direction is relaxed.
C6_TwoPhaseMachine ==
    /\ current_phase = "OPTIMALITY"
    /\ [][
           /\ (current_phase' # current_phase) =>
                ( /\ fr_call'.op = "is_acceptable"
                  /\ direction' = direction
                  /\ (current_phase' = "FEASIBILITY_RESTORATION") => direction.is_relaxed
                  /\ (current_phase' = "OPTIMALITY") => ~ direction.is_relaxed )
           /\ (fr_call'.op = "is_acceptable" /\ fr_call'.step_norm # 0) =>
                (current_phase' = "FEASIBILITY_RESTORATION" <=> direction.is_relaxed)
       ]_vars

\* is_acceptable brought the strategy back from restoration to optimality
C6_Witness ==
    /\ fr_call.op = "is_acceptable"
    /\ fr_call.phase_before = "FEASIBILITY_RESTORATION"
    /\ current_phase = "OPTIMALITY"
    /\ ~ direction.is_relaxed

\* position of the first occurrence of a call in a call log, 0 if absent
FirstIndex(calls, call) ==
    IF \E i \in 1..Len(calls) : calls[i] = call
    THEN CHOOSE i \in 1..Len(calls) : calls[i] = call /\ \A k \in 1..(i - 1) : calls[k] # call
    ELSE 0

StrategyOf(phase) == IF phase = "OPTIMALITY" THEN "phase_2" ELSE "phase_1"

\* C7: on each phase transition, in either direction, notify is called on the
\* strategy of the abandoned phase and reset on the strategy of the entered
\* phase, the notify before the reset.
C7_NotifyThenResetOnEveryTransition ==
    (fr_call.op = "is_acceptable" /\ fr_call.phase_before # current_phase) =>
        LET notify == FirstIndex(fr_call.calls, StrategyOf(fr_call.phase_before) \o ".notify")
            reset == FirstIndex(fr_call.calls, StrategyOf(current_phase) \o ".reset")
        IN  0 < notify /\ notify < reset

\* C8: the strategy returns from FEASIBILITY_RESTORATION to OPTIMALITY only for
\* an un-relaxed direction whose trial progress the optimality strategy
\* accepts; an un-relaxed direction whose trial is rejected leaves the phase
\* at FEASIBILITY_RESTORATION.
C8_ReturnOnlyIfOptimalityStrategyAccepts ==
    (fr_call.op = "is_acceptable" /\ fr_call.phase_before = "FEASIBILITY_RESTORATION"
        /\ current_phase = "OPTIMALITY") =>
        (~ direction.is_relaxed /\ fr_call.accept)

\* C9: the Direction returned by compute_feasible_direction never has status
\* INFEASIBLE, and the call solves at most two subproblems, the second only
\* when the first was INFEASIBLE.
C9_InfeasibleNeverSurfaced ==
    fr_call.op = "compute_feasible_direction" =>
        /\ direction.status # "INFEASIBLE"
        /\ fr_call.solves <= 2
        /\ (fr_call.solves = 2) => (fr_call.first_status = "INFEASIBLE")

\* C10: every Direction obtained by solving the feasibility problem, in
\* compute_feasible_direction or in solve_feasibility_problem, is returned
\* with is_relaxed = true, objective_multiplier = 0 and the constraint
\* partition of the infeasible solve; every direction of the normal
\* subproblem has is_relaxed = false and objective_multiplier = objective_sign.
C10_FeasibilityDirectionsAreMarked ==
    /\ (fr_call.op \in {"compute_feasible_direction", "solve_feasibility_problem"}
            /\ fr_call.feasibility_problem) =>
          /\ direction.is_relaxed
          /\ direction.objective_multiplier = 0
          /\ direction.constraint_partition = fr_call.first_partition
    /\ (fr_call.op = "compute_feasible_direction" /\ ~ fr_call.feasibility_problem) =>
          /\ ~ direction.is_relaxed
          /\ direction.objective_multiplier = objective_sign

-----------------------------------------------------------------------------
(* Properties of the iterates FeasibilityRestoration::is_acceptable works on, *)
(* checked under SpecFR                                                    *)

\* C11: for every trial iterate that is_acceptable accepts, in either phase
\* and on the zero-step-norm shortcut too, trial_iterate.progress.infeasibility
\* is the L1 violation of all constraints at the trial iterate.
C11_AcceptedTrialInfeasibilityIsViolation ==
    (fr_call.op = "is_acceptable" /\ fr_call.accept) =>
        fr_trial.progress.infeasibility = constraint_violation(1..NumConstraints)

check_acceptance_called(calls) ==
    \E i \in 1..Len(calls) : calls[i] \in { "phase_1.check_acceptance", "phase_2.check_acceptance" }

\* the progress measures as the phase defines them
PhaseProgress(phase, partition) ==
    IF phase = "FEASIBILITY_RESTORATION"
    THEN [ infeasibility |-> constraint_violation(1..NumConstraints),
           objective |-> constraint_violation(partition.infeasible) ]
    ELSE [ infeasibility |-> constraint_violation(1..NumConstraints),
           objective |-> objective_measure ]

\* C12: at every check_acceptance call made by is_acceptable, the progress of
\* current_iterate and the progress of trial_iterate are both the measures of
\* the current phase: in FEASIBILITY_RESTORATION (total violation, violation
\* of the constraints infeasible in the direction's partition), in OPTIMALITY
\* (total violation, objective).
C12_ProgressMeasuresOfTheSamePhase ==
    (fr_call.op = "is_acceptable" /\ check_acceptance_called(fr_call.calls)) =>
        /\ fr_current.progress = PhaseProgress(current_phase, direction.constraint_partition)
        /\ fr_trial.progress = PhaseProgress(current_phase, direction.constraint_partition)

\* C13: when is_acceptable accepts a trial with a relaxed direction, the
\* trial's constraint multipliers become +1 for the INFEASIBLE_LOWER and -1 for
\* the INFEASIBLE_UPPER constraints of partition.infeasible and all others
\* keep their value; when the trial is rejected or the direction is not
\* relaxed, no trial multiplier changes.
C13_RestorationMultipliersFrame ==
    fr_call.op = "is_acceptable" =>
        LET partition == direction.constraint_partition
        IN  IF fr_call.accept /\ direction.is_relaxed
            THEN \A j \in 1..NumConstraints :
                    fr_trial.multipliers[j] =
                        IF j \in partition.infeasible
                        THEN (IF partition.constraint_feasibility[j] = "INFEASIBLE_LOWER" THEN 1 ELSE -1)
                        ELSE fr_call.multipliers_before[j]
            ELSE fr_trial.multipliers = fr_call.multipliers_before

\* a relaxed trial was accepted and a multiplier was rewritten
C13_Witness ==
    /\ fr_call.op = "is_acceptable"
    /\ fr_call.accept
    /\ direction.is_relaxed
    /\ direction.constraint_partition.infeasible # {}
    /\ fr_trial.multipliers # fr_call.multipliers_before

-----------------------------------------------------------------------------
(* Properties of l1Relaxation, checked under SpecL1 *)

\* C14: over any sequence of l1Relaxation operations the penalty parameter
\* never increases and never becomes negative; once it is 0 it stays 0, and a
\* compute_feasible_direction entered with penalty 0 makes exactly one
\* subproblem solve and no steering.
C14_PenaltyNeverIncreases ==
    [][
        /\ penalty_parameter' <= penalty_parameter
        /\ 0 <= penalty_parameter'
        /\ (penalty_parameter = 0) => (penalty_parameter' = 0)
        /\ (penalty_parameter = 0 /\ l1_pc = "idle") => (l1_pc' \in {"idle", "return"})
        /\ (l1_call'.op = "compute_feasible_direction" /\ l1_pc' = "idle"
                /\ l1_call'.penalty_at_entry = 0) =>
              (l1_call'.solves = 1 /\ l1_call'.resets = 0)
    ]_vars

\* compute_feasible_direction returned after steering the penalty parameter to 0
C14_Witness ==
    /\ l1_call.op = "compute_feasible_direction"
    /\ l1_pc = "idle"
    /\ 0 < l1_call.penalty_at_entry
    /\ penalty_parameter = 0

\* C15: during one call of solve_with_steering_rule the globalization strategy
\* is reset iff the penalty parameter at the return is strictly smaller than
\* at the entry.
C15_ResetIffPenaltyDecreased ==
    (l1_call.op = "compute_feasible_direction" /\ l1_pc \in {"return", "idle"}) =>
        /\ l1_call.resets \in {0, 1}
        /\ (l1_call.resets = 1) <=> (penalty_parameter < l1_call.penalty_at_entry)

\* solve_with_steering_rule returns after a decrease and a reset
C15_Witness ==
    /\ l1_call.op = "compute_feasible_direction"
    /\ l1_pc = "return"
    /\ l1_call.resets = 1
    /\ penalty_parameter < l1_call.penalty_at_entry

\* the operations of l1Relaxation that return a Direction
DirectionOperations ==
    { "compute_feasible_direction", "compute_second_order_correction", "solve_feasibility_problem" }

-----------------------------------------------------------------------------
(* Properties of the lazy evaluations of Iterate, checked under SpecIterate *)

\* C17: for the objective, the constraints, the objective gradient and the
\* constraint Jacobian, the first evaluate_* call on an Iterate invokes the
\* evaluator of the Problem once and sets the computed flag, and a later call
\* on the same Iterate changes neither the cached value nor any counter nor
\* invokes an evaluator; number_eval_objective, number_eval_constraints and
\* number_eval_jacobian never decrease and each equals the number of
\* invocations of the evaluator of its kind.
C17_LazyCaching ==
    [][
        /\ \A q \in Quantities :
              (it_iterate'.x = it_iterate.x /\ it_iterate'.calls[q] = it_iterate.calls[q] + 1) =>
                  /\ it_iterate'.computed[q]
                  /\ IF it_iterate.computed[q]
                     THEN /\ it_iterate'.value = it_iterate.value
                          /\ evaluator_invocations' = evaluator_invocations
                          /\ number_eval_objective' = number_eval_objective
                          /\ number_eval_constraints' = number_eval_constraints
                          /\ number_eval_jacobian' = number_eval_jacobian
                     ELSE /\ evaluator_invocations'[q] = evaluator_invocations[q] + 1
                          /\ it_iterate'.value[q].x = it_iterate.x
                          /\ it_iterate'.value[q].invocation = evaluator_invocations'[q]
        /\ number_eval_objective' >= number_eval_objective
        /\ number_eval_constraints' >= number_eval_constraints
        /\ number_eval_jacobian' >= number_eval_jacobian
        /\ number_eval_objective' = evaluator_invocations'["objective"]
        /\ number_eval_constraints' = evaluator_invocations'["constraints"]
        /\ number_eval_jacobian' = evaluator_invocations'["constraints_jacobian"]
    ]_vars

\* every quantity of the second Iterate was asked for twice and evaluated once
C17_Witness ==
    /\ iterates_constructed = 2
    /\ \A q \in Quantities : it_iterate.calls[q] = 2 /\ it_iterate.computed[q]
    /\ \A q \in Quantities : it_iterate.value[q].x = 2
    /\ number_eval_objective = evaluator_invocations["objective"]
    /\ number_eval_jacobian <= 2

-----------------------------------------------------------------------------
(* Properties of TrustLineSearch::compute_iterate, checked under SpecTLS and *)
(* SpecTLSFair                                                               *)

\* C18: when compute_iterate returns after an accepted trial step, the radius
\* is twice the radius used for the accepted solve if the trust region was
\* active at the solution (solution.norm >= radius - activity_tolerance) and
\* exactly that radius otherwise, so it is never smaller than the radius used,
\* whatever attempts failed earlier in the same call.
C18_RadiusAfterAcceptedStep ==
    (tls_pc = "returned" /\ is_accepted) =>
        /\ radius >= radius_at_solve
        /\ radius = IF is_active(tls_solution_norm, radius_at_solve)
                    THEN 2 * radius_at_solve
                    ELSE radius_at_solve

FinalPositions == { "returned", "thrown" }

\* C19: compute_iterate always terminates, whatever compute_step and
\* check_step do (accept, reject, throw invalid_argument, return a direction
\* that is not a descent direction): it returns only after an accepted trial,
\* or it throws out_of_range with the radius below radius_threshold or the
\* inner iteration count above max_iterations.
C19_TerminatesAcceptedOrOutOfRange ==
    /\ (tls_pc \notin FinalPositions) ~> (tls_pc \in FinalPositions)
    /\ [](tls_pc = "returned" => is_accepted)
    /\ [](tls_pc = "thrown" =>
             /\ tls_exception = "out_of_range"
             /\ ~ is_accepted
             /\ (radius < radius_threshold \/ tls_max_iterations < number_iterations))

\* the radius was reduced until termination threw out_of_range
C19_Witness ==
    /\ tls_pc = "thrown"
    /\ tls_exception = "out_of_range"
    /\ linesearch_failed
    /\ radius < radius_threshold
    /\ number_iterations = 0

\* C20 as stated: an invalid_argument thrown by check_step is treated as a
\* rejected trial (is_accepted false, step length multiplied by ratio, the
\* inner loop continues), an invalid_argument thrown by compute_step makes the
\* radius be halved and the solve retried, and no invalid_argument leaves
\* compute_iterate.
C20_FailureHalvesAndRetries ==
    [][
        /\ tls_event' = "check_step_threw" =>
              /\ ~ is_accepted'
              /\ tls_step_length' = tls_step_length \div ratio_inverse
              /\ tls_pc' = "inner_test"
              /\ tls_exception' = "none"
        /\ tls_event' = "compute_step_threw" =>
              /\ radius' = IF radius = INFINITY THEN INFINITY ELSE radius \div 2
              /\ tls_pc' = "outer_test"
              /\ tls_exception' = "none"
        /\ tls_event = "compute_step_threw" => tls_pc' = "compute_step"
        /\ tls_exception' # "invalid_argument"
    ]_vars

\* C20, amended: an invalid_argument thrown by check_step is treated as a
\* rejected trial (is_accepted false, step length multiplied by ratio, the
\* inner loop continues); an invalid_argument thrown by compute_step makes a
\* finite radius be halved and an infinite radius become half of 20, and the
\* solve is retried unless the new radius is below radius_threshold, in which
\* case termination throws out_of_range; no invalid_argument leaves
\* compute_iterate.
C20_FailureReducesRadiusAndRetries ==
    [][
        /\ tls_event' = "check_step_threw" =>
              /\ ~ is_accepted'
              /\ tls_step_length' = tls_step_length \div ratio_inverse
              /\ tls_pc' = "inner_test"
              /\ tls_exception' = "none"
        /\ tls_event' = "compute_step_threw" =>
              /\ radius' = IF radius = INFINITY THEN radius_after_infinity \div 2
                                                ELSE radius \div 2
              /\ number_iterations' = 0
              /\ tls_pc' = "outer_test"
              /\ tls_exception' = "none"
        /\ tls_event = "compute_step_threw" =>
              IF radius < radius_threshold
              THEN tls_pc' = "thrown" /\ tls_exception' = "out_of_range"
              ELSE tls_pc' = "compute_step"
        /\ tls_exception' # "invalid_argument"
    ]_vars

\* check_step threw during the line search that followed a failed solve with
\* an infinite radius
C20_Witness ==
    /\ tls_event = "check_step_threw"
    /\ linesearch_failed
    /\ radius = radius_after_infinity \div 2
    /\ ~ is_accepted
    /\ tls_step_length < StepUnit
    /\ tls_exception = "none"

-----------------------------------------------------------------------------
(* Properties of the presets, checked under SpecOptions *)

\* C21: each preset (ipopt, filtersqp, byrd) applied by find_preset leaves
\* the options with a subproblem value for which SubproblemFactory::create
\* builds a subproblem instead of throwing invalid_argument, and with the
\* mechanism, constraint-relaxation and strategy values inside their
\* documented sets.
C21_PresetsSelectDocumentedValues ==
    (opt_call.preset \in Presets) =>
        /\ (opt_call.op = "find_preset" =>
               /\ \A k \in OptionKeys : options[k] \in DocumentedValues[k]
               /\ SubproblemFactory_create(options) # "invalid_argument")
        /\ (opt_call.op = "create" => subproblem_created # "invalid_argument")

-----------------------------------------------------------------------------
(* Properties of the Direction built by BQPDSolver, checked under SpecBQPD *)

\* C22: every Direction built by generate_direction_, before and after
\* correct_multipliers, carries for every variable a lower-bound multiplier
\* >= 0 and an upper-bound multiplier <= 0, for all active-set lists and
\* residual values of the backend.
C22_BoundMultiplierSigns ==
    (bqpd_pc \in { "generated", "corrected" }) =>
        \A i \in 1..NumVariables :
            /\ bqpd_direction.lower_bounds[i] >= 0
            /\ bqpd_direction.upper_bounds[i] <= 0

\* how often a value occurs in a list
Occurrences(seq, v) == Cardinality({ p \in 1..Len(seq) : seq[p] = v })

\* the position of constraint j in the active-set list
PositionOfConstraint(ls, j) == CHOOSE p \in 1..(NumVariables + NumConstraints) : Abs(ls[p]) = NumVariables + j

\* C28: when ls_ is a signed permutation of the n + m indices, every
\* constraint appears exactly once in the feasible and infeasible lists taken
\* together; it is in the infeasible list, and classified INFEASIBLE_LOWER or
\* INFEASIBLE_UPPER, exactly when it is inactive with a negative residual
\* (INFEASIBLE_UPPER iff its entry of ls_ is negative), and it is FEASIBLE
\* otherwise; an active constraint is always FEASIBLE.
C28_EachConstraintClassifiedOnce ==
    (bqpd_pc \in { "generated", "corrected" }) =>
        \A j \in 1..NumConstraints :
            LET p == PositionOfConstraint(bqpd_ls, j)
                active == p <= NumVariables - bqpd_k
                violated == ~ active /\ bqpd_residuals[NumVariables + j] < 0
                d == bqpd_direction
            IN  /\ Occurrences(d.feasible, j) + Occurrences(d.infeasible, j) = 1
                /\ Occurrences(d.infeasible, j) = 1 <=> violated
                /\ d.constraint_feasibility[j] =
                       IF violated
                       THEN IF bqpd_ls[p] < 0 THEN "INFEASIBLE_UPPER" ELSE "INFEASIBLE_LOWER"
                       ELSE "FEASIBLE"
                /\ active => d.constraint_feasibility[j] = "FEASIBLE"

\* a Direction with a constraint whose upper bound is violated, next to an
\* active bound constraint
C28_Witness ==
    /\ bqpd_pc = "generated"
    /\ bqpd_k < NumVariables
    /\ bqpd_direction.infeasible = << 1 >>
    /\ bqpd_direction.constraint_feasibility[1] = "INFEASIBLE_UPPER"
    /\ bqpd_direction.feasible = << >>

-----------------------------------------------------------------------------
(* Properties of the bounds of the subproblem, checked under SpecBounds *)

\* C27: set_variables_bounds sets the bounds of every original variable i to
\* [max(-radius, xL_i - x_i), min(radius, xU_i - x_i)] and leaves the bounds
\* of the elastic variables unchanged; whenever xL_i <= x_i <= xU_i and
\* radius >= 0 the interval contains 0.
C27_TrustRegionBoundsFrame ==
    (svb_call.op = "set_variables_bounds") =>
        /\ \A i \in 1..NumVariables :
              LET xL == svb_call.problem_bounds[i].lb
                  xU == svb_call.problem_bounds[i].ub
                  x == svb_call.x[i]
                  r == svb_call.trust_region_radius
              IN  /\ variables_bounds[i].lb = (IF xL = -INFINITY \/ xL - x < - r THEN - r ELSE xL - x)
                  /\ variables_bounds[i].ub = (IF xU = INFINITY \/ r < xU - x THEN r ELSE xU - x)
                  /\ (xL <= x /\ x <= xU /\ r >= 0) =>
                         (variables_bounds[i].lb <= 0 /\ 0 <= variables_bounds[i].ub)
        /\ \A i \in ElasticVariables :
              variables_bounds[i] = svb_call.elastic_before[i]

\* the trust region cuts the lower bound of a variable strictly inside its
\* bounds while the elastic variables keep the bounds [0, INFINITY]
C27_Witness ==
    /\ svb_call.op = "set_variables_bounds"
    /\ svb_call.trust_region_radius = MaxBound
    /\ svb_call.problem_bounds[1].lb = -INFINITY
    /\ svb_call.problem_bounds[1].ub = MaxBound
    /\ svb_call.x[1] = 0
    /\ variables_bounds[1] = [ lb |-> - MaxBound, ub |-> MaxBound ]
    /\ \A i \in ElasticVariables :
          variables_bounds[i] = [ lb |-> 0, ub |-> INFINITY ]

(***************************************************************************)
(* l1Relaxation: the steering rule                                         *)
(***************************************************************************)

\* C23: the penalty-decrease loop of solve_with_steering_rule terminates; a
\* pass that stays in the loop divides the penalty by decrease_factor, the
\* loop is left with the penalty clamped to 0 as soon as it drops below the
\* threshold, and on exit either C1 and C2 both hold for the direction that
\* is returned or the penalty parameter is 0
C23_SteeringLoopExit ==
    /\ (l1_pc = "loop") ~> (l1_pc # "loop")
    /\ [][ (l1_pc = "loop" /\ l1_pc' = "loop")
              => penalty_parameter' = penalty_parameter \div decrease_factor ]_vars
    /\ [](steering.loop = "clamped" => penalty_parameter = 0)
    /\ [](steering.loop = "conditions" =>
             \/ penalty_parameter = 0
             \/ /\ stage_d(steering.constraints, steering.direction_residual,
                           steering.residual_lowest_violation)
                /\ stage_e(TRUE, steering.constraints, l1_direction.objective,
                           steering.objective_lowest_violation))

\* C24: one call of compute_feasible_direction performs at most three
\* subproblem solves
C24_AtMostThreeSolves ==
    l1_call.op = "compute_feasible_direction" => l1_call.solves <= 3

\* C24, amended: at most three solves are made outside the penalty-decrease
\* loop, and the loop adds one solve for each division of the penalty by
\* decrease_factor that leaves it at or above the threshold
C24_ThreeSolvesAndOnePerDecrease ==
    l1_call.op = "compute_feasible_direction" =>
        /\ l1_call.solves <= 3 + l1_call.loop_solves
        /\ l1_call.loop_solves > 0 =>
              Power(decrease_factor, l1_call.loop_solves) * penalty_threshold
                  <= l1_call.penalty_at_entry

C24_Witness ==
    /\ l1_call.op = "compute_feasible_direction"
    /\ l1_pc = "idle"
    /\ l1_call.solves = 4
    /\ l1_call.loop_solves = 1

\* C25: on every exit path of solve_with_steering_rule the direction that is
\* returned carries the penalty parameter in force as its objective multiplier
C25_DirectionComputedWithPenaltyInForce ==
    (l1_call.op = "compute_feasible_direction" /\ l1_pc \in {"return", "idle"})
        => l1_direction.objective_multiplier = penalty_parameter

(***************************************************************************)
(* is_acceptable and the flag subproblem_definition_changed                *)
(***************************************************************************)

AcceptanceTests ==
    { "phase_1.check_acceptance", "phase_2.check_acceptance",
      "globalization_strategy.check_acceptance" }

\* the call is in the log and no acceptance test comes before it
BeforeAnyAcceptanceTest(calls, call) ==
    /\ FirstIndex(calls, call) > 0
    /\ \A i \in 1..Len(calls) : calls[i] \in AcceptanceTests => FirstIndex(calls, call) < i

DefinitionChangeHandled(calls, changed, reset) ==
    IF changed
    THEN /\ BeforeAnyAcceptanceTest(calls, reset)
         /\ BeforeAnyAcceptanceTest(calls, "current_iterate.compute_progress_measures")
         /\ BeforeAnyAcceptanceTest(calls, "subproblem_definition_changed.clear")
    ELSE FirstIndex(calls, reset) = 0

\* C26: when subproblem_definition_changed is set at the start of
\* is_acceptable, of FeasibilityRestoration and of l1Relaxation, the strategy
\* of the optimality measures is reset, the progress measures of the current
\* iterate are recomputed and the flag is cleared before any acceptance test
\* of the call; the flag is false after every is_acceptable, and a call that
\* finds the flag not set does not reset the strategy on this path
C26_DefinitionChangeHandledBeforeAcceptance ==
    /\ fr_call.op = "is_acceptable" =>
          /\ DefinitionChangeHandled(fr_call.calls, fr_call.definition_changed, "phase_2.reset")
          /\ fr_call.definition_changed =>
                fr_current.progress \in { compute_progress_measures,
                                          compute_infeasibility_measures(direction.constraint_partition) }
          /\ ~ subproblem_definition_changed
    /\ l1_call.op = "is_acceptable" =>
          /\ DefinitionChangeHandled(l1_call.calls, l1_call.definition_changed,
                                     "globalization_strategy.reset")
          /\ l1_call.resets = IF l1_call.definition_changed THEN 1 ELSE 0
          /\ ~ subproblem_definition_changed

C26_Witness ==
    \/ /\ fr_call.op = "is_acceptable"
       /\ fr_call.definition_changed
       /\ check_acceptance_called(fr_call.calls)
    \/ /\ l1_call.op = "is_acceptable"
       /\ l1_call.definition_changed
       /\ FirstIndex(l1_call.calls, "globalization_strategy.check_acceptance") > 0

(***************************************************************************)
(* TrustLineSearch: step lengths and failed line searches                  *)
(***************************************************************************)

\* the radius after a failed line search: half the radius, an infinite
\* radius becoming 20 and then 10
HalvedRadius(trust_region_radius) ==
    IF trust_region_radius = INFINITY THEN radius_after_infinity \div 2
                                      ELSE trust_region_radius \div 2

\* the line search of one direction has used up its trials without acceptance
TrialsUsedUp ==
    /\ tls_pc = "inner_test"
    /\ ~ is_accepted
    /\ tls_max_iterations < number_iterations

\* C30: the step lengths tried for one direction are 1, ratio, ratio^2, ...;
\* when the line search fails, because the direction is not a descent
\* direction or because the backtracking loop has used up its trials without
\* acceptance, the radius is halved (an infinite radius becomes 20, then 10),
\* the inner iteration counter is reset to 0 and, the radius allowing it, a
\* new direction is computed with the smaller radius
C30_StepLengthsAndFailedLineSearch ==
    [][
        /\ tls_pc = "check_step" =>
              tls_step_length * Power(ratio_inverse, number_iterations) = StepUnit
        /\ tls_event' = "non_descent_direction" =>
              /\ radius' = HalvedRadius(radius)
              /\ number_iterations' = 0
              /\ tls_pc' = "outer_test"
        /\ TrialsUsedUp =>
              /\ radius' = HalvedRadius(radius)
              /\ number_iterations' = 0
              /\ tls_pc' = "outer_test"
        /\ (tls_event \in { "non_descent_direction", "radius_reduced" }
              /\ ~ is_accepted /\ radius >= radius_threshold) =>
              /\ tls_pc' = "compute_step"
              /\ radius' = radius
    ]_vars

(***************************************************************************)
(* BQPDSolver: the common blocks seen by bqpd_                             *)
(***************************************************************************)

\* what the bqpd_ call of the instance read is what the instance wrote
ObservedOwn(i) ==
    \A observed \in { cb_observed[i].entry, cb_observed[i].exit } :
        \/ observed = NotRead
        \/ observed = instance_common_blocks(cb_solver[i])

====
